---------------------------- MODULE Spec2Model ----------------------------
(***************************************************************************)
(* Model of the flash_post blogging backend: the tag usage accounting and  *)
(* post/tag association code (api/shared/blog_repo.py, tag_repo.py,        *)
(* api/tag/service.py) and the unique-slug resolvers of the post and tag   *)
(* services (api/src/blogs/service.py, api/tag/service.py).                *)
(*                                                                         *)
(* The relational store is modelled by its tables.  A repository method is *)
(* modelled by the statements it issues, in the order it issues them.      *)
(***************************************************************************)
EXTENDS Integers, Sequences, FiniteSets, TLC

\* ------------------------------------------------------------------ bounds

\* Number of post ids ever handed out.
MaxBlogs == 2
\* Number of tag rows.
MaxTags == 2
\* Cap on usage_count in the accounting specification (guards only).
MaxCount == 3
\* Largest increment / decrement argument of the TagRepository counters.
MaxAmount == 2
\* Number of comment ids ever handed out.
MaxComments == 3
MaxAuthComments == 2
MaxTotal == 7
MaxPage == 4
MaxPerPage == 3
MaxNames == 12
MaxVariants == 2
MaxWords == 2

BlogIds == 1..MaxBlogs
TagIds == 1..MaxTags

\* ------------------------------------------------------------------- slugs
\* A slug is the sequence of its hyphen-separated segments.  A segment is a
\* number: 0 is the empty segment (the slug "" is <<0>>), 1..100 are the
\* decimal counters, 201.. are words, 1001.. are 8-character uuid prefixes.

Tokens == {1001, 1002}

\* The value of an optional id that was not given (Python None).
None == 0

\* No slug: the slug key is absent from an updates dictionary.
NoSlug == <<>>

\* The slugs the repository methods are called with.
SlugPool == {<<201>>, <<201, 1>>}

\* The base slugs generate_seo_optimized_slug yields for the titles used.
BaseSlugs == {<<201>>, <<202>>}

\* new_tag_ids = None: update_with_tags leaves the tags alone.
NoneIds == <<None>>

\* Sessions (one request handler each, with its own database session).
Procs == {1, 2}

\* ------------------------------------------------------------------- state

VARIABLES
    tags,         \* ids of the rows of table tags
    usage_count,  \* Tag.usage_count, by tag id (0 where there is no row)
    blogs,        \* ids of the rows of table blogs
    blog_slug,    \* Blog.slug, by blog id
    blog_tags,    \* rows of the association table: <<blog_id, tag_id>>
    next_id,      \* the next fresh blog id
    tx,           \* by session: the call in progress and its uncommitted writes
    slugq,        \* a call of the two slug resolvers: arguments, rows, results
    comments,     \* rows of table comments
    published,    \* ids of the blogs whose is_published is true
    next_comment, \* the next fresh comment id
    cres,         \* the last call of the comment service / repository and its result
    tag_name,     \* Tag.name, by tag id
    tag_slug,     \* Tag.slug, by tag id
    pageq,        \* a paginated query: arguments and response
    tagsq,        \* a call of the tags validator of the blog schemas
    published_at, \* ids of the blogs whose published_at is not null
    likes,        \* rows of table likes
    otp,          \* the cached password-reset code, by user (None: no key)
    otp_count,    \* the number of reset codes generated so far
    password      \* the stored password, by user

\* The comment store, the tag names and the calls of pure functions.
comment_vars == <<comments, published, next_comment, cres>>
tagname_vars == <<tag_name, tag_slug>>
query_vars == <<slugq, pageq, tagsq>>
account_vars == <<published_at, likes, otp, otp_count, password>>

vars == <<tags, usage_count, blogs, blog_slug, blog_tags, next_id, tx,
          comment_vars, tagname_vars, account_vars, query_vars>>

\* ------------------------------------------------- statements of blog_repo

Max(a, b) == IF a >= b THEN a ELSE b

Range(s) == {s[i] : i \in 1..Len(s)}

RECURSIVE SetToSeq(_)
SetToSeq(S) ==
    IF S = {} THEN <<>>
    ELSE LET m == CHOOSE x \in S : \A y \in S : x <= y
         IN <<m>> \o SetToSeq(S \ {m})

\* The lists of tag ids the repository methods are called with (a List[str]):
\* the lists without a repeated id, one for each set of ids (the statements
\* do not depend on the order), and the lists that repeat one id.
TagIdLists == {SetToSeq(S) : S \in SUBSET TagIds} \cup {<<t, t>> : t \in TagIds}

\* get_blog_tag_ids that finds no row.
get_blog_tag_ids_empty(rows, blog_id) == {}

\* BlogRepository.get_blog_tag_ids: the tag ids of the rows of one blog.
get_blog_tag_ids(rows, blog_id) == {r[2] : r \in {x \in rows : x[1] = blog_id}}

\* BlogRepository.associate_tags: one row per element of tag_ids.
associate_tags(rows, blog_id, tag_ids) ==
    rows \cup {<<blog_id, tag_ids[i]>> : i \in 1..Len(tag_ids)}

\* The insert of associate_tags violates a constraint of blog_tags: the
\* composite primary key (a pair inserted twice, or already there) or the
\* foreign key to tags.
associate_violates(rows, tag_rows, blog_id, tag_ids) ==
    \/ \E i, j \in 1..Len(tag_ids) : i # j /\ tag_ids[i] = tag_ids[j]
    \/ \E i \in 1..Len(tag_ids) : <<blog_id, tag_ids[i]>> \in rows
    \/ \E i \in 1..Len(tag_ids) : tag_ids[i] \notin tag_rows

\* The delete statement of replace_blog_tags.
delete_blog_tag_rows(rows, blog_id) == {r \in rows : r[1] # blog_id}

\* BlogRepository.replace_blog_tags: delete the blog's rows, insert the new.
replace_blog_tags(rows, blog_id, new_tag_ids) ==
    IF Len(new_tag_ids) > 0
    THEN associate_tags(delete_blog_tag_rows(rows, blog_id), blog_id, new_tag_ids)
    ELSE delete_blog_tag_rows(rows, blog_id)

\* increment_tag_usage_counts that updates nothing.
increment_tag_usage_counts_none(cnt, tag_rows, ids) == cnt

\* BlogRepository.increment_tag_usage_counts: usage_count + 1 on the rows
\* whose id is in tag_ids (UPDATE ... WHERE id IN tag_ids).
increment_tag_usage_counts(cnt, tag_rows, ids) ==
    [t \in TagIds |-> IF t \in ids /\ t \in tag_rows THEN cnt[t] + 1 ELSE cnt[t]]

\* decrement_tag_usage_counts that updates nothing.
decrement_tag_usage_counts_none(cnt, tag_rows, ids) == cnt

\* BlogRepository.decrement_tag_usage_counts: greatest(usage_count - 1, 0).
decrement_tag_usage_counts(cnt, tag_rows, ids) ==
    [t \in TagIds |-> IF t \in ids /\ t \in tag_rows
                      THEN Max(cnt[t] - 1, 0) ELSE cnt[t]]

\* TagRepository.increment_usage_counts: usage_count + increment.
increment_usage_counts(cnt, tag_rows, ids, increment) ==
    [t \in TagIds |-> IF t \in ids /\ t \in tag_rows
                      THEN cnt[t] + increment ELSE cnt[t]]

\* decrement_usage_counts without greatest(..., 0).
decrement_usage_counts_unfloored(cnt, tag_rows, ids, decrement) ==
    [t \in TagIds |-> IF t \in ids /\ t \in tag_rows
                      THEN cnt[t] - decrement ELSE cnt[t]]

\* TagRepository.decrement_usage_counts: greatest(usage_count - decrement, 0).
decrement_usage_counts(cnt, tag_rows, ids, decrement) ==
    [t \in TagIds |-> IF t \in ids /\ t \in tag_rows
                      THEN Max(cnt[t] - decrement, 0) ELSE cnt[t]]

\* update_blog that writes the row only when updates holds a value.
update_blog_writes_if_changed(slug) == slug # NoSlug

\* BlogRepository.update_blog writes the row whatever updates holds:
\* blog.updated_at = datetime.utcnow() makes it dirty, flush() emits the UPDATE.
update_blog_writes(slug) == TRUE

\* The in-use check off by one.
tag_in_use_above_one(count) == count > 1

\* TagService.delete_tag: if existing_tag.usage_count > 0: raise TagConstraintError
tag_in_use(count) == count > 0

\* A slug column without the unique index.
slug_unique_never(rows, slugs, blog_id, slug) == FALSE

\* The unique index on Blog.slug: another row already holds the slug.
slug_unique_violated(rows, slugs, blog_id, slug) ==
    \E b \in rows : b # blog_id /\ slugs[b] = slug

\* ------------------------------------------------------ the slug resolvers

\* The resolver could not produce a slug (SlugConflictError).
SlugConflict == <<-1>>

\* f"{base_slug}-{counter}" and f"{base_slug}-{str(uuid.uuid4())[:8]}".
Candidate(base_slug, suffix) == Append(base_slug, suffix)

\* slug_exists without the exclude_id filter.
blog_slug_exists_any(rows, slugs, slug, exclude_id) ==
    \E b \in rows : slugs[b] = slug

\* BlogRepository.slug_exists: a row with the slug, other than exclude_id's.
blog_slug_exists(rows, slugs, slug, exclude_id) ==
    \E b \in rows : slugs[b] = slug /\ (exclude_id # None => b # exclude_id)

\* TagRepository.slug_exists.
tag_slug_exists(rows, slugs, slug, exclude_id) ==
    \E t \in rows : slugs[t] = slug /\ (exclude_id # None => t # exclude_id)

\* range(1, 101) of BlogService._generate_unique_slug
BlogSlugAttempts == 100
\* range(1, 101) of TagService._generate_unique_slug
TagSlugAttempts == 100

\* The counter loop of BlogService._generate_unique_slug from counter on;
\* after the last counter, the uuid fallback and its final check.
RECURSIVE blog_slug_loop(_, _, _, _, _, _)
blog_slug_loop(rows, slugs, base_slug, exclude_id, token, counter) ==
    IF counter > BlogSlugAttempts
    THEN IF ~blog_slug_exists(rows, slugs, Candidate(base_slug, token), exclude_id)
         THEN Candidate(base_slug, token)
         ELSE SlugConflict
    ELSE IF ~blog_slug_exists(rows, slugs, Candidate(base_slug, counter), exclude_id)
         THEN Candidate(base_slug, counter)
         ELSE blog_slug_loop(rows, slugs, base_slug, exclude_id, token, counter + 1)

\* _generate_unique_slug whose counter starts at 2.
blog_generate_unique_slug_from2(rows, slugs, base_slug, exclude_id, token) ==
    IF ~blog_slug_exists(rows, slugs, base_slug, exclude_id)
    THEN base_slug
    ELSE blog_slug_loop(rows, slugs, base_slug, exclude_id, token, 2)

\* BlogService._generate_unique_slug, from the base slug of the title; token
\* is the uuid prefix the fallback draws.
blog_generate_unique_slug(rows, slugs, base_slug, exclude_id, token) ==
    IF ~blog_slug_exists(rows, slugs, base_slug, exclude_id)
    THEN base_slug
    ELSE blog_slug_loop(rows, slugs, base_slug, exclude_id, token, 1)

\* The counter loop of TagService._generate_unique_slug; after the last
\* counter the uuid fallback is returned as it is.
RECURSIVE tag_slug_loop(_, _, _, _, _, _)
tag_slug_loop(rows, slugs, base_slug, exclude_id, token, counter) ==
    IF counter > TagSlugAttempts
    THEN Candidate(base_slug, token)
    ELSE IF ~tag_slug_exists(rows, slugs, Candidate(base_slug, counter), exclude_id)
         THEN Candidate(base_slug, counter)
         ELSE tag_slug_loop(rows, slugs, base_slug, exclude_id, token, counter + 1)

\* TagService._generate_unique_slug.
tag_generate_unique_slug(rows, slugs, base_slug, exclude_id, token) ==
    IF ~tag_slug_exists(rows, slugs, base_slug, exclude_id)
    THEN base_slug
    ELSE tag_slug_loop(rows, slugs, base_slug, exclude_id, token, 1)

\* No resolver call recorded.
NoQuery ==
    [ rows |-> {}, slugs |-> <<>>, base |-> NoSlug, exclude |-> None,
      token |-> None, blog_result |-> NoSlug, tag_result |-> NoSlug ]

\* No call recorded (comment calls, paginated query, tags validator).
NoCall == [op |-> "none", result |-> "none"]

\* A tag row's name and slug are not modelled (or the row does not exist).
NoName == <<>>

\* The parts of the state a specification does not use: no comment, no
\* published flag, no tag name, no query.
NoComments ==
    /\ comments = {}
    /\ published = {}
    /\ next_comment = 1
    /\ cres = [op |-> "none", result |-> "none", blog |-> None, comment |-> None,
               user |-> None, parent |-> None, resp |-> NoCall]

NoTagNames ==
    /\ tag_name = [t \in TagIds |-> NoName]
    /\ tag_slug = [t \in TagIds |-> NoSlug]

NoQueries ==
    /\ pageq = NoCall
    /\ tagsq = NoCall

\* Users: the authors of comments and likes, the holders of passwords.
UserIds == {1, 2, 3}

\* No published_at, no like, no reset code; every user has the password
\* it registered with.
OldPassword == 1
NoAccounts ==
    /\ published_at = {}
    /\ likes = {}
    /\ otp = [u \in UserIds |-> None]
    /\ otp_count = 0
    /\ password = [u \in UserIds |-> OldPassword]

\* ----------------------------------------------------------- the sessions
\* A session runs one call at a time.  Its statements are flushed to the
\* database in program order; what they write stays in the session's own
\* transaction (read committed: no other session sees it) until commit,
\* and is dropped by rollback.  A written row is locked until then.

Actors ==
    { [present |-> TRUE,  is_active |-> TRUE,  role |-> "admin"],
      [present |-> TRUE,  is_active |-> TRUE,  role |-> "user"],
      [present |-> TRUE,  is_active |-> FALSE, role |-> "admin"],
      [present |-> FALSE, is_active |-> FALSE, role |-> "user"] }

Admin == [present |-> TRUE, is_active |-> TRUE, role |-> "admin"]

ZeroCounts == [t \in TagIds |-> 0]

\* A session with no call in progress and no open transaction.
IdleTx ==
    [ op |-> "none", pc |-> "idle", result |-> "none",
      actor |-> Admin,     \* current_user / the author
      blog |-> None,       \* blog_id (argument, or the id of the inserted row)
      tag |-> None,        \* tag_id (delete_tag)
      slug |-> NoSlug,     \* the slug written (argument, or the resolved one)
      base |-> NoSlug,     \* base_slug of the slug resolver
      repeat |-> FALSE,    \* the call repeats the session's last call, which succeeded
      name |-> NoName,     \* tag_data.name (create_tag, update_tag)
      names |-> {},        \* requested tag names
      missing |-> {},      \* the names TagNotFoundError lists
      ids |-> <<>>,        \* tag_ids / new_tag_ids
      amount |-> 1,        \* increment / decrement (TagRepository counters)
      current |-> {},      \* current_tag_ids
      ins_blog |-> FALSE,  \* row blog inserted
      upd_blog |-> FALSE,  \* row blog updated (locked)
      del_blog |-> FALSE,  \* row blog deleted
      ins_assoc |-> {},    \* blog_tags rows inserted
      del_assoc |-> {},    \* blog_tags rows deleted
      cnt_w |-> {},        \* tags rows whose usage_count is written (locked)
      cnt_v |-> ZeroCounts,\* the usage_count written
      del_tag |-> FALSE,   \* row tag deleted
      user |-> None,       \* user_id (like, unlike, password reset)
      target |-> [kind |-> "none", id |-> None],  \* target_type, target_id
      existing |-> {},     \* existing_like: the rows get_like found
      code |-> None,       \* otp: the code the client sends (None: missing)
      new_password |-> None ]

Active(p) == tx[p].pc \notin {"idle", "done"}

\* What session p reads: the committed rows and its own writes.
ViewTags(p) == IF tx[p].del_tag THEN tags \ {tx[p].tag} ELSE tags

ViewCount(p) ==
    [t \in TagIds |-> IF t \in tx[p].cnt_w THEN tx[p].cnt_v[t] ELSE usage_count[t]]

ViewAssoc(p) == (blog_tags \ tx[p].del_assoc) \cup tx[p].ins_assoc

ViewBlogs(p) ==
    IF tx[p].ins_blog THEN blogs \cup {tx[p].blog}
    ELSE IF tx[p].del_blog THEN blogs \ {tx[p].blog}
    ELSE blogs

ViewSlug(p) ==
    [b \in BlogIds |->
        IF (tx[p].ins_blog \/ tx[p].upd_blog) /\ b = tx[p].blog /\ tx[p].slug # NoSlug
        THEN tx[p].slug ELSE blog_slug[b]]

\* The sessions holding a lock on a row: a written row is locked by its
\* writer until the writer's transaction ends.
TagWriters(t) ==
    {q \in Procs : t \in tx[q].cnt_w \/ (tx[q].del_tag /\ tx[q].tag = t)}

TagDeleters(t) == {q \in Procs : tx[q].del_tag /\ tx[q].tag = t}

\* A row of blog_tags inserted by a session holds a key-share lock on the
\* tag row and the blog row it references (the foreign keys).
TagReferrers(t) == {q \in Procs : \E r \in tx[q].ins_assoc : r[2] = t}

BlogReferrers(b) == {q \in Procs : \E r \in tx[q].ins_assoc : r[1] = b}

BlogWriters(b) ==
    {q \in Procs : tx[q].blog = b
                   /\ (tx[q].ins_blog \/ tx[q].upd_blog \/ tx[q].del_blog)}

AssocWriters(r) == {q \in Procs : r \in tx[q].ins_assoc \cup tx[q].del_assoc}

\* The sessions holding an uncommitted row with this slug in the unique index.
SlugHolders(slug) ==
    {q \in Procs : (tx[q].ins_blog \/ tx[q].upd_blog) /\ tx[q].slug = slug}

\* The sessions whose locks the next statement of session p waits for.
WaitsFor(p) ==
    LET t == tx[p]
        mine == {r \in ViewAssoc(p) : r[1] = t.blog}
        tagged == {r \in ViewAssoc(p) : r[2] = t.tag}
        held ==
          CASE t.pc = "insert_blog" -> SlugHolders(t.slug)
            [] t.pc = "associate" ->
                 UNION {TagDeleters(t.ids[i]) \cup AssocWriters(<<t.blog, t.ids[i]>>)
                        : i \in 1..Len(t.ids)}
            [] t.pc \in {"increment", "tag_increment", "tag_decrement"} ->
                 UNION {TagWriters(x) : x \in Range(t.ids) \cap ViewTags(p)}
            [] t.pc = "update_blog" ->
                 IF t.blog \notin ViewBlogs(p) THEN {}
                 ELSE BlogWriters(t.blog)
                      \cup (IF t.slug # NoSlug THEN SlugHolders(t.slug) ELSE {})
            [] t.pc = "replace" -> UNION {AssocWriters(r) : r \in mine}
            [] t.pc = "decrement" ->
                 UNION {TagWriters(x) : x \in t.current \cap ViewTags(p)}
            [] t.pc = "delete_rows" ->
                 BlogWriters(t.blog) \cup BlogReferrers(t.blog)
                 \cup UNION {AssocWriters(r) : r \in mine}
            [] t.pc = "tag_delete_assoc" -> UNION {AssocWriters(r) : r \in tagged}
            [] t.pc = "tag_delete_row" -> TagWriters(t.tag) \cup TagReferrers(t.tag)
            [] OTHER -> {}
    IN held \ {p}

\* ------------------------------------------------------- commit, rollback

\* The session after its call returned or raised: the transaction is over,
\* its locks are released; the arguments and the result stay readable.
Closed(t, result) ==
    [t EXCEPT !.pc = "done", !.result = result, !.current = {},
              !.actor = Admin, !.base = NoSlug,
              !.ins_blog = FALSE, !.upd_blog = FALSE, !.del_blog = FALSE,
              !.ins_assoc = {}, !.del_assoc = {},
              !.cnt_w = {}, !.cnt_v = ZeroCounts, !.del_tag = FALSE,
              !.existing = {}]

\* A failure that leaves the statements already flushed in the database.
rollback_keeps_writes(p, result) ==
    /\ tags' = ViewTags(p)
    /\ usage_count' = [t \in TagIds |-> IF t \in ViewTags(p) THEN ViewCount(p)[t] ELSE 0]
    /\ blogs' = ViewBlogs(p)
    /\ blog_slug' = [b \in BlogIds |-> IF b \in ViewBlogs(p) THEN ViewSlug(p)[b] ELSE NoSlug]
    /\ blog_tags' = ViewAssoc(p)
    /\ tx' = [tx EXCEPT ![p] = Closed(tx[p], result)]
    /\ UNCHANGED <<comment_vars, tagname_vars, account_vars, query_vars>>

\* db.rollback() (or a return with nothing written): the writes are dropped.
Rollback(p, result) ==
    /\ tx' = [tx EXCEPT ![p] = Closed(tx[p], result)]
    /\ UNCHANGED <<tags, usage_count, blogs, blog_slug, blog_tags>>
    /\ UNCHANGED <<comment_vars, tagname_vars, account_vars, query_vars>>

\* db.commit(): the session's writes become the committed rows.
Commit(p, result) ==
    /\ tags' = ViewTags(p)
    /\ usage_count' = [t \in TagIds |-> IF t \in ViewTags(p) THEN ViewCount(p)[t] ELSE 0]
    /\ blogs' = ViewBlogs(p)
    /\ blog_slug' = [b \in BlogIds |-> IF b \in ViewBlogs(p) THEN ViewSlug(p)[b] ELSE NoSlug]
    /\ blog_tags' = ViewAssoc(p)
    /\ tx' = [tx EXCEPT ![p] = Closed(tx[p], result)]
    /\ UNCHANGED <<comment_vars, tagname_vars, account_vars, query_vars>>

\* The statement goes on to the next one.
Goto(p, t) ==
    /\ tx' = [tx EXCEPT ![p] = t]
    /\ UNCHANGED <<tags, usage_count, blogs, blog_slug, blog_tags>>
    /\ UNCHANGED <<comment_vars, tagname_vars, account_vars, query_vars>>

\* ------------------------------------------------------------- the calls

CanBegin(p) == tx[p].pc \in {"idle", "done"}

\* Creations begun by other sessions that have not inserted their row yet.
PendingCreates(p) ==
    Cardinality({q \in Procs \ {p} :
        Active(q) /\ tx[q].op \in {"create_blog", "create_with_tags"}
                  /\ ~tx[q].ins_blog})

\* BlogRepository.create_with_tags(blog_data, tag_ids) is called.
BeginCreateWithTags(p, slug, tag_ids) ==
    /\ CanBegin(p)
    /\ next_id + PendingCreates(p) <= MaxBlogs
    /\ Goto(p, [IdleTx EXCEPT !.op = "create_with_tags", !.pc = "insert_blog",
                              !.slug = slug, !.ids = tag_ids])
    /\ UNCHANGED next_id

\* BlogService.create_blog(blog_data, author_id) is called; base_slug is the
\* slug of blog_data.title, names the normalised blog_data.tags.
BeginCreateBlog(p, actor, names, base_slug) ==
    /\ CanBegin(p)
    /\ next_id + PendingCreates(p) <= MaxBlogs
    /\ Goto(p, [IdleTx EXCEPT !.op = "create_blog", !.pc = "validate_author",
                              !.actor = actor, !.names = names, !.base = base_slug])
    /\ UNCHANGED next_id

\* BlogRepository.update_with_tags(blog_id, updates, new_tag_ids) is called.
BeginUpdateWithTags(p, blog_id, slug, new_tag_ids) ==
    /\ CanBegin(p)
    /\ Goto(p, [IdleTx EXCEPT !.op = "update_with_tags", !.pc = "update_blog",
                              !.blog = blog_id, !.slug = slug, !.ids = new_tag_ids,
                              !.repeat = /\ tx[p].op = "update_with_tags"
                                         /\ tx[p].result = "ok"
                                         /\ tx[p].blog = blog_id
                                         /\ tx[p].ids = new_tag_ids])
    /\ UNCHANGED next_id

\* BlogRepository.delete_blog(blog_id) is called.
BeginDeleteBlog(p, blog_id) ==
    /\ CanBegin(p)
    /\ Goto(p, [IdleTx EXCEPT !.op = "delete_blog", !.pc = "delete_get",
                              !.blog = blog_id])
    /\ UNCHANGED next_id

\* TagService.delete_tag(tag_id, current_user) is called.
BeginDeleteTag(p, tag_id, actor) ==
    /\ CanBegin(p)
    /\ Goto(p, [IdleTx EXCEPT !.op = "delete_tag", !.pc = "require_admin",
                              !.tag = tag_id, !.actor = actor])
    /\ UNCHANGED next_id

\* ---------------------------------------- BlogService.create_blog, steps

\* BlogService._validate_author
ValidateAuthor(p) ==
    /\ tx[p].pc = "validate_author"
    /\ IF ~tx[p].actor.present \/ ~tx[p].actor.is_active
       THEN Rollback(p, "unauthorized")
       ELSE Goto(p, [tx[p] EXCEPT !.pc = "validate_tags"])
    /\ UNCHANGED next_id

\* A get_by_names that finds a tag for every name.
get_by_names_any(tag_rows, names) == names

\* TagRepository.get_by_names: the tags whose name is one of names (a tag's
\* name is written as its id here).
get_by_names(tag_rows, names) == {t \in tag_rows : t \in names}

\* BlogService._validate_and_get_tags: TagNotFoundError lists the missing
\* names; otherwise the caller goes on with the ids of the tags found.
validate_and_get_tags(p, next_pc) ==
    LET existing_tags == get_by_names(ViewTags(p), tx[p].names)
        missing_tags == tx[p].names \ existing_tags
    IN IF missing_tags # {}
       THEN /\ tx' = [tx EXCEPT ![p] =
                    Closed([tx[p] EXCEPT !.missing = missing_tags], "tag_not_found")]
            /\ UNCHANGED <<tags, usage_count, blogs, blog_slug, blog_tags>>
            /\ UNCHANGED <<comment_vars, tagname_vars, account_vars, query_vars>>
       ELSE Goto(p, [tx[p] EXCEPT !.pc = next_pc, !.ids = SetToSeq(existing_tags)])

\* create_blog: tags = await self._validate_and_get_tags(blog_data.tags)
ValidateTags(p) ==
    /\ tx[p].pc = "validate_tags"
    /\ validate_and_get_tags(p, "slug")
    /\ UNCHANGED next_id

\* BlogService._generate_unique_slug(blog_data.title)
GenerateSlug(p) ==
    /\ tx[p].pc = "slug"
    /\ \E token \in Tokens :
         LET slug == blog_generate_unique_slug(ViewBlogs(p), ViewSlug(p),
                                               tx[p].base, None, token)
         IN IF slug = SlugConflict
            THEN Rollback(p, "slug_conflict")
            ELSE Goto(p, [tx[p] EXCEPT !.pc = "insert_blog", !.slug = slug])
    /\ UNCHANGED next_id

\* ------------------------------- BlogRepository.create_with_tags, steps

\* BlogRepository.create_blog: the row is added and flushed.  The insert
\* waits for a session holding the same slug uncommitted; the unique index
\* on slug rejects it (IntegrityError, rollback) if a row holds the slug.
InsertBlog(p) ==
    /\ tx[p].pc = "insert_blog"
    /\ WaitsFor(p) = {}
    /\ IF slug_unique_violated(blogs, blog_slug, next_id, tx[p].slug)
       THEN Rollback(p, "slug_conflict") /\ UNCHANGED next_id
       ELSE /\ Goto(p, [tx[p] EXCEPT !.blog = next_id, !.ins_blog = TRUE,
                           !.pc = IF Len(tx[p].ids) > 0 THEN "associate" ELSE "commit"])
            /\ next_id' = next_id + 1

\* BlogRepository.associate_tags: the insert into blog_tags.  It waits for a
\* session that deleted a referenced tag row or wrote one of the same rows.
AssociateTags(p) ==
    /\ tx[p].pc = "associate"
    /\ WaitsFor(p) = {}
    /\ IF associate_violates(ViewAssoc(p), ViewTags(p), tx[p].blog, tx[p].ids)
       THEN Rollback(p, "integrity")
       ELSE Goto(p, [tx[p] EXCEPT
                !.ins_assoc = associate_tags(tx[p].ins_assoc, tx[p].blog, tx[p].ids),
                !.pc = IF tx[p].op = "update_with_tags" /\ tx[p].current # {}
                       THEN "decrement" ELSE "increment"])
    /\ UNCHANGED next_id

\* BlogRepository.increment_tag_usage_counts: the update waits for a session
\* that wrote one of the rows.
IncrementCounts(p) ==
    /\ tx[p].pc = "increment"
    /\ WaitsFor(p) = {}
    /\ Goto(p, [tx[p] EXCEPT
            !.cnt_v = increment_tag_usage_counts(ViewCount(p), ViewTags(p), Range(tx[p].ids)),
            !.cnt_w = tx[p].cnt_w \cup (Range(tx[p].ids) \cap ViewTags(p)),
            !.pc = "commit"])
    /\ UNCHANGED next_id

\* self.db.commit()
CommitCall(p) ==
    /\ tx[p].pc = "commit"
    /\ Commit(p, "ok")
    /\ UNCHANGED next_id

\* ------------------------------- BlogRepository.update_with_tags, steps

\* BlogRepository.update_blog: get_by_id, then the row is updated and
\* flushed (updated_at is always set).  The update waits for a session that
\* wrote the row; the unique index on slug may reject it.
UpdateBlog(p) ==
    /\ tx[p].pc = "update_blog"
    /\ WaitsFor(p) = {}
    /\ IF tx[p].blog \notin ViewBlogs(p)
       THEN Rollback(p, "none")
       ELSE IF /\ tx[p].slug # NoSlug
               /\ slug_unique_violated(blogs, blog_slug, tx[p].blog, tx[p].slug)
       THEN Rollback(p, "slug_conflict")
       ELSE Goto(p, [tx[p] EXCEPT !.upd_blog = update_blog_writes(tx[p].slug),
                !.pc = IF tx[p].ids = NoneIds THEN "commit" ELSE "get_tags"])
    /\ UNCHANGED next_id

\* current_tag_ids = self.get_blog_tag_ids(blog_id)
GetBlogTagIds(p) ==
    /\ tx[p].pc = "get_tags"
    /\ Goto(p, [tx[p] EXCEPT
            !.current = get_blog_tag_ids(ViewAssoc(p), tx[p].blog),
            !.pc = IF tx[p].op = "delete_blog" THEN "delete_rows" ELSE "replace"])
    /\ UNCHANGED next_id

\* BlogRepository.replace_blog_tags, the delete of the blog's rows.  It waits
\* for a session that wrote one of them.
ReplaceDelete(p) ==
    /\ tx[p].pc = "replace"
    /\ WaitsFor(p) = {}
    /\ LET mine == {r \in ViewAssoc(p) : r[1] = tx[p].blog}
       IN Goto(p, [tx[p] EXCEPT
                  !.del_assoc = tx[p].del_assoc \cup (mine \cap blog_tags),
                  !.ins_assoc = delete_blog_tag_rows(tx[p].ins_assoc, tx[p].blog),
                  !.pc = IF Len(tx[p].ids) > 0 THEN "associate"
                         ELSE IF tx[p].current # {} THEN "decrement"
                         ELSE "commit"])
    /\ UNCHANGED next_id

\* BlogRepository.decrement_tag_usage_counts(current_tag_ids)
DecrementCounts(p) ==
    /\ tx[p].pc = "decrement"
    /\ WaitsFor(p) = {}
    /\ Goto(p, [tx[p] EXCEPT
            !.cnt_v = decrement_tag_usage_counts(ViewCount(p), ViewTags(p), tx[p].current),
            !.cnt_w = tx[p].cnt_w \cup (tx[p].current \cap ViewTags(p)),
            !.pc = IF tx[p].op = "update_with_tags" /\ Len(tx[p].ids) > 0
                   THEN "increment" ELSE "commit"])
    /\ UNCHANGED next_id

\* ----------------------------------- BlogRepository.delete_blog, steps

\* blog = self.get_by_id(blog_id, ...); if not blog: return False
DeleteGet(p) ==
    /\ tx[p].pc = "delete_get"
    /\ IF tx[p].blog \notin ViewBlogs(p)
       THEN Rollback(p, "false")
       ELSE Goto(p, [tx[p] EXCEPT !.pc = "get_tags"])
    /\ UNCHANGED next_id

\* self.db.delete(blog), flushed before the next statement: the rows of
\* blog_tags of the blog (Blog.tags, secondary) and the blog row are deleted.
DeleteRows(p) ==
    /\ tx[p].pc = "delete_rows"
    /\ WaitsFor(p) = {}
    /\ IF tx[p].blog \notin ViewBlogs(p)
       THEN Rollback(p, "stale")
       ELSE LET mine == {r \in ViewAssoc(p) : r[1] = tx[p].blog}
            IN Goto(p, [tx[p] EXCEPT
                    !.del_blog = TRUE,
                    !.del_assoc = tx[p].del_assoc \cup (mine \cap blog_tags),
                    !.pc = IF tx[p].current # {} THEN "decrement" ELSE "commit"])
    /\ UNCHANGED next_id

\* ------------------------------------------ TagService.delete_tag, steps

\* A check of the role alone.
require_admin_role_only(user) == user.role # "admin"

\* TagService._require_admin
require_admin_fails(user) ==
    ~user.present \/ ~user.is_active \/ user.role # "admin"

RequireAdmin(p) ==
    /\ tx[p].pc = "require_admin"
    /\ IF require_admin_fails(tx[p].actor)
       THEN Rollback(p, "unauthorized")
       ELSE Goto(p, [tx[p] EXCEPT !.pc = "tag_read"])
    /\ UNCHANGED next_id

\* existing_tag = get_by_id(tag_id); the checks on it.
TagRead(p) ==
    /\ tx[p].pc = "tag_read"
    /\ IF tx[p].tag \notin ViewTags(p)
       THEN Rollback(p, "tag_not_found")
       ELSE IF tag_in_use(ViewCount(p)[tx[p].tag])
       THEN Rollback(p, "tag_in_use")
       ELSE Goto(p, [tx[p] EXCEPT !.pc = "tag_get"])
    /\ UNCHANGED next_id

\* TagRepository.delete: tag = self.get_by_id(tag_id); if not tag: return False
TagGet(p) ==
    /\ tx[p].pc = "tag_get"
    /\ IF tx[p].tag \notin ViewTags(p)
       THEN Rollback(p, "false")
       ELSE Goto(p, [tx[p] EXCEPT !.pc = "tag_delete_assoc"])
    /\ UNCHANGED next_id

\* self.db.delete(tag) at the flush of commit, first part: the unit of work
\* loads Tag.blogs and deletes the tag's rows of the secondary table.
TagDeleteAssoc(p) ==
    /\ tx[p].pc = "tag_delete_assoc"
    /\ WaitsFor(p) = {}
    /\ LET tagged == {r \in ViewAssoc(p) : r[2] = tx[p].tag}
       IN Goto(p, [tx[p] EXCEPT
               !.del_assoc = tx[p].del_assoc \cup (tagged \cap blog_tags),
               !.pc = "tag_delete_row"])
    /\ UNCHANGED next_id

\* second part: the tag row is deleted.  The delete waits for the sessions
\* that wrote or reference the row; a row of blog_tags that still references
\* it violates the foreign key (IntegrityError, nothing is committed).
TagDeleteRow(p) ==
    /\ tx[p].pc = "tag_delete_row"
    /\ WaitsFor(p) = {}
    /\ IF \E r \in ViewAssoc(p) : r[2] = tx[p].tag
       THEN Rollback(p, "integrity")
       ELSE Goto(p, [tx[p] EXCEPT !.del_tag = TRUE, !.pc = "commit"])
    /\ UNCHANGED next_id

\* ------------------------------------------- the usage counters, called alone

\* BlogRepository.increment_tag_usage_counts(tag_ids) is called.
BeginIncrementCounts(p, tag_ids) ==
    /\ CanBegin(p)
    /\ \A t \in Range(tag_ids) : usage_count[t] < MaxCount
    /\ Goto(p, [IdleTx EXCEPT !.op = "increment_tag_usage_counts",
                              !.pc = "increment", !.ids = tag_ids])
    /\ UNCHANGED next_id

\* BlogRepository.decrement_tag_usage_counts(tag_ids) is called.
BeginDecrementCounts(p, tag_ids) ==
    /\ CanBegin(p)
    /\ Goto(p, [IdleTx EXCEPT !.op = "decrement_tag_usage_counts",
                              !.pc = "decrement", !.ids = tag_ids,
                              !.current = Range(tag_ids)])
    /\ UNCHANGED next_id

\* TagRepository.increment_usage_counts(tag_ids, increment) is called.
BeginTagIncrement(p, tag_ids, increment) ==
    /\ CanBegin(p)
    /\ \A t \in Range(tag_ids) : usage_count[t] + increment <= MaxCount
    /\ Goto(p, [IdleTx EXCEPT !.op = "increment_usage_counts",
                              !.pc = "tag_increment", !.ids = tag_ids,
                              !.amount = increment])
    /\ UNCHANGED next_id

\* TagRepository.decrement_usage_counts(tag_ids, decrement) is called.
BeginTagDecrement(p, tag_ids, decrement) ==
    /\ CanBegin(p)
    /\ Goto(p, [IdleTx EXCEPT !.op = "decrement_usage_counts",
                              !.pc = "tag_decrement", !.ids = tag_ids,
                              !.amount = decrement])
    /\ UNCHANGED next_id

\* The UPDATE of TagRepository.increment_usage_counts.
TagIncrementCounts(p) ==
    /\ tx[p].pc = "tag_increment"
    /\ WaitsFor(p) = {}
    /\ Goto(p, [tx[p] EXCEPT
            !.cnt_v = increment_usage_counts(ViewCount(p), ViewTags(p),
                                             Range(tx[p].ids), tx[p].amount),
            !.cnt_w = tx[p].cnt_w \cup (Range(tx[p].ids) \cap ViewTags(p)),
            !.pc = "commit"])
    /\ UNCHANGED next_id

\* The UPDATE of TagRepository.decrement_usage_counts.
TagDecrementCounts(p) ==
    /\ tx[p].pc = "tag_decrement"
    /\ WaitsFor(p) = {}
    /\ Goto(p, [tx[p] EXCEPT
            !.cnt_v = decrement_usage_counts(ViewCount(p), ViewTags(p),
                                             Range(tx[p].ids), tx[p].amount),
            !.cnt_w = tx[p].cnt_w \cup (Range(tx[p].ids) \cap ViewTags(p)),
            !.pc = "commit"])
    /\ UNCHANGED next_id

\* ---------------------------------------------------------------- deadlock

RECURSIVE WaitClosure(_, _)
WaitClosure(S, n) ==
    IF n = 0 THEN S
    ELSE WaitClosure(S \cup UNION {WaitsFor(q) : q \in S}, n - 1)

\* The database ends a cycle of waiting sessions by failing the statement
\* of one of them; the repository rolls back and re-raises.
DeadlockAbort(p) ==
    /\ Active(p)
    /\ p \in WaitClosure(WaitsFor(p), Cardinality(Procs))
    /\ Rollback(p, "deadlock")
    /\ UNCHANGED next_id

\* ------------------------------------------------------------ specification

\* No post yet, every tag provisioned and unused, no call in progress.
Init ==
    /\ tags = TagIds
    /\ usage_count = ZeroCounts
    /\ blogs = {}
    /\ blog_slug = [b \in BlogIds |-> NoSlug]
    /\ blog_tags = {}
    /\ next_id = 1
    /\ tx = [p \in Procs |-> IdleTx]
    /\ slugq = NoQuery
    /\ NoComments /\ NoTagNames /\ NoAccounts /\ NoQueries

\* The statements of the repository and service methods.
RepoStep(p) ==
    \/ InsertBlog(p)
    \/ AssociateTags(p)
    \/ IncrementCounts(p)
    \/ CommitCall(p)
    \/ UpdateBlog(p)
    \/ GetBlogTagIds(p)
    \/ ReplaceDelete(p)
    \/ DecrementCounts(p)
    \/ DeleteGet(p)
    \/ DeleteRows(p)
    \/ RequireAdmin(p)
    \/ TagRead(p)
    \/ TagGet(p)
    \/ TagDeleteAssoc(p)
    \/ TagDeleteRow(p)

\* The calls a client makes of the repository and of the tag service.
RepoCall(p) ==
    \/ \E slug \in SlugPool, ids \in TagIdLists : BeginCreateWithTags(p, slug, ids)
    \/ \E b \in BlogIds, slug \in SlugPool \cup {NoSlug},
          ids \in TagIdLists \cup {NoneIds} : BeginUpdateWithTags(p, b, slug, ids)
    \/ \E b \in BlogIds : BeginDeleteBlog(p, b)
    \/ \E t \in TagIds, actor \in Actors : BeginDeleteTag(p, t, actor)

\* One session: the calls run to completion one at a time.
Next == RepoCall(1) \/ RepoStep(1)

Spec == Init /\ [][Next]_vars

\* ------------------------------------------------- concurrent sessions

\* The number of posts associated with a tag.
PostsWith(rows, t) == Cardinality({r \in rows : r[2] = t})

\* A database as sequential calls leave it: posts 1..k created from the same
\* title, each with some tags, the counts as the creations left them.
InitTx ==
    /\ tags = TagIds
    /\ \E k \in 0..MaxBlogs :
         /\ blogs = 1..k
         /\ blog_slug = [b \in BlogIds |->
                IF b > k THEN NoSlug
                ELSE IF b = 1 THEN <<201>> ELSE Candidate(<<201>>, b - 1)]
         /\ next_id = k + 1
         /\ \E tagsOf \in [1..k -> SUBSET TagIds] :
                blog_tags = {r \in (1..k) \X TagIds : r[2] \in tagsOf[r[1]]}
    /\ usage_count = [t \in TagIds |-> PostsWith(blog_tags, t)]
    /\ tx = [p \in Procs |-> IdleTx]
    /\ slugq = NoQuery
    /\ NoComments /\ NoTagNames /\ NoAccounts /\ NoQueries

\* The statements of the calls of the concurrent specification.
TxStep(p) ==
    \/ ValidateAuthor(p)
    \/ ValidateTags(p)
    \/ GenerateSlug(p)
    \/ InsertBlog(p)
    \/ AssociateTags(p)
    \/ IncrementCounts(p)
    \/ CommitCall(p)
    \/ UpdateBlog(p)
    \/ GetBlogTagIds(p)
    \/ ReplaceDelete(p)
    \/ DecrementCounts(p)
    \/ RequireAdmin(p)
    \/ TagRead(p)
    \/ TagGet(p)
    \/ TagDeleteAssoc(p)
    \/ TagDeleteRow(p)
    \/ DeadlockAbort(p)

\* Each session makes one call: a post creation, a tag-set replacement or a
\* tag deletion.
TxCall(p) ==
    /\ tx[p].pc = "idle"
    /\ \/ \E names \in SUBSET TagIds, base \in BaseSlugs :
            BeginCreateBlog(p, Admin, names, base)
       \/ \E b \in BlogIds, ids \in TagIdLists :
            BeginUpdateWithTags(p, b, NoSlug, ids)
       \/ \E t \in TagIds : BeginDeleteTag(p, t, Admin)

NextTx == \E p \in Procs : TxCall(p) \/ TxStep(p)

SpecTx == InitTx /\ [][NextTx]_vars

\* ------------------------------------------------- the blog service alone

\* The author of the posts of this specification.
author_of(blog_id) == Admin

\* BlogService.update_blog(blog_id, updates, user_id) is called with
\* updates.tags = names and the title unchanged.
BeginUpdateBlog(p, actor, blog_id, names) ==
    /\ CanBegin(p)
    /\ Goto(p, [IdleTx EXCEPT !.op = "update_blog", !.pc = "update_get",
                              !.actor = actor, !.blog = blog_id, !.names = names])
    /\ UNCHANGED next_id

\* blog = get_by_id(blog_id, include_drafts=True) and the check of the author.
UpdateGet(p) ==
    /\ tx[p].pc = "update_get"
    /\ IF tx[p].blog \notin ViewBlogs(p)
       THEN Rollback(p, "blog_not_found")
       ELSE IF author_of(tx[p].blog) # tx[p].actor
       THEN Rollback(p, "unauthorized")
       ELSE Goto(p, [tx[p] EXCEPT !.pc = "update_validate_tags"])
    /\ UNCHANGED next_id

\* update_blog: new_tags = await self._validate_and_get_tags(updates.tags)
UpdateValidateTags(p) ==
    /\ tx[p].pc = "update_validate_tags"
    /\ validate_and_get_tags(p, "update_with_tags")
    /\ UNCHANGED next_id

\* update_blog: self.blog_repo.update_with_tags(blog_id, update_dict, new_tag_ids)
UpdateWithTags(p) ==
    /\ tx[p].pc = "update_with_tags"
    /\ Goto(p, [tx[p] EXCEPT !.op = "update_with_tags", !.pc = "update_blog"])
    /\ UNCHANGED next_id

\* Some tags are provisioned, there is no post.
InitSvc ==
    /\ tags \in SUBSET TagIds
    /\ usage_count = ZeroCounts
    /\ blogs = {}
    /\ blog_slug = [b \in BlogIds |-> NoSlug]
    /\ blog_tags = {}
    /\ next_id = 1
    /\ tx = [p \in Procs |-> IdleTx]
    /\ slugq = NoQuery
    /\ NoComments /\ NoTagNames /\ NoAccounts /\ NoQueries

SvcStep(p) ==
    \/ ValidateAuthor(p)
    \/ ValidateTags(p)
    \/ GenerateSlug(p)
    \/ InsertBlog(p)
    \/ AssociateTags(p)
    \/ IncrementCounts(p)
    \/ CommitCall(p)
    \/ UpdateGet(p)
    \/ UpdateValidateTags(p)
    \/ UpdateWithTags(p)
    \/ UpdateBlog(p)
    \/ GetBlogTagIds(p)
    \/ ReplaceDelete(p)
    \/ DecrementCounts(p)

\* Post creations and tag-set replacements through the service.
SvcCall(p) ==
    \/ \E actor \in Actors \ {[present |-> TRUE, is_active |-> TRUE, role |-> "user"]},
          names \in SUBSET TagIds, base \in BaseSlugs :
            BeginCreateBlog(p, actor, names, base)
    \/ \E actor \in Actors, b \in BlogIds, names \in SUBSET TagIds :
            BeginUpdateBlog(p, actor, b, names)

NextSvc == SvcCall(1) \/ SvcStep(1)

SpecSvc == InitSvc /\ [][NextSvc]_vars

\* ------------------------------------------------- the usage counters alone

\* The calls of the counter methods of both repositories.
AcctCall(p) ==
    \/ \E ids \in TagIdLists : BeginIncrementCounts(p, ids)
    \/ \E ids \in TagIdLists : BeginDecrementCounts(p, ids)
    \/ \E ids \in TagIdLists, n \in 1..MaxAmount : BeginTagIncrement(p, ids, n)
    \/ \E ids \in TagIdLists, n \in 1..MaxAmount : BeginTagDecrement(p, ids, n)

AcctStep(p) ==
    \/ IncrementCounts(p)
    \/ DecrementCounts(p)
    \/ TagIncrementCounts(p)
    \/ TagDecrementCounts(p)
    \/ CommitCall(p)

\* Any sequence of increments and decrements of the counters, from zero.
NextAcct == AcctCall(1) \/ AcctStep(1)

SpecAcct == Init /\ [][NextAcct]_vars

\* ------------------------------------------------- the slug resolvers alone

\* Row ids of a slug table: row n + 1 holds the base slug (n = 0) or the
\* base with counter n, the last rows hold the base with a uuid prefix.
CounterRows == 1..(BlogSlugAttempts + 1)
TokenRow(token) == BlogSlugAttempts + 1 + (token - 1000)
SlugRowIds == CounterRows \cup {TokenRow(token) : token \in Tokens}

SlugOfRow(base_slug, id) ==
    IF id = 1 THEN base_slug
    ELSE IF id \in CounterRows THEN base_slug \o <<id - 1>>
    ELSE base_slug \o <<1000 + (id - (BlogSlugAttempts + 1))>>

\* A slug table and a call: the base and its first k numbered forms exist,
\* possibly the form after the first free one, and some uuid forms.
InitSlug ==
    /\ tags = TagIds
    /\ usage_count = ZeroCounts
    /\ blogs = {}
    /\ blog_slug = [b \in BlogIds |-> NoSlug]
    /\ blog_tags = {}
    /\ next_id = 1
    /\ tx = [p \in Procs |-> IdleTx]
    /\ NoComments /\ NoTagNames /\ NoAccounts /\ NoQueries
    /\ \E base \in BaseSlugs, k \in 0..(BlogSlugAttempts + 1), gap \in BOOLEAN,
          taken \in SUBSET Tokens, token \in Tokens, exclude \in {None, 1, 2} :
         slugq = [ rows |-> (1..k)
                            \cup (IF gap /\ k + 2 \in CounterRows THEN {k + 2} ELSE {})
                            \cup {TokenRow(x) : x \in taken},
                   slugs |-> [id \in SlugRowIds |-> SlugOfRow(base, id)],
                   base |-> base, exclude |-> exclude, token |-> token,
                   blog_result |-> NoSlug, tag_result |-> NoSlug ]

\* BlogService._generate_unique_slug is called on the table.
ResolveBlogSlug ==
    /\ slugq.blog_result = NoSlug
    /\ slugq' = [slugq EXCEPT !.blog_result =
            blog_generate_unique_slug(slugq.rows, slugq.slugs, slugq.base,
                                      slugq.exclude, slugq.token)]
    /\ UNCHANGED <<tags, usage_count, blogs, blog_slug, blog_tags, next_id, tx>>
    /\ UNCHANGED <<comment_vars, tagname_vars, account_vars, pageq, tagsq>>

\* TagService._generate_unique_slug is called on the same table.
ResolveTagSlug ==
    /\ slugq.tag_result = NoSlug
    /\ slugq' = [slugq EXCEPT !.tag_result =
            tag_generate_unique_slug(slugq.rows, slugq.slugs, slugq.base,
                                     slugq.exclude, slugq.token)]
    /\ UNCHANGED <<tags, usage_count, blogs, blog_slug, blog_tags, next_id, tx>>
    /\ UNCHANGED <<comment_vars, tagname_vars, account_vars, pageq, tagsq>>

NextSlug == ResolveBlogSlug \/ ResolveTagSlug

SpecSlug == InitSlug /\ [][NextSlug]_vars

\* ------------------------------------------------------- the comment store
\* A handler of the comment service runs its reads and its one commit with
\* no other call in between; it is one step.

CommentIds == 1..MaxComments

\* User 1 has role "admin", the others role "user".
role_of(user_id) == IF user_id = 1 THEN "admin" ELSE "user"

\* A blog id that names no row.
AbsentBlog == MaxBlogs + 1

\* The bodies a comment is created with (1) and updated to (2).
NewContent == 1
UpdatedContent == 2

\* Comment(**comment_data): is_edited defaults to False, created_at to now.
new_comment(id, blog_id, author_id, parent_id, content) ==
    [ id |-> id, blog_id |-> blog_id, author_id |-> author_id,
      parent_id |-> parent_id, content |-> content, is_edited |-> FALSE,
      created_at |-> id ]

\* select(Comment).where(Comment.id == comment_id): the rows found.
comment_by_id(rows, comment_id) == {r \in rows : r.id = comment_id}

\* A get_by_id that finds drafts whether asked for or not.
blog_found_with_drafts(blog_id, include_drafts) == blog_id \in blogs

\* BlogRepository.get_by_id: the blog is found; drafts only on request.
blog_found(blog_id, include_drafts) ==
    blog_id \in blogs /\ (include_drafts \/ blog_id \in published)

\* The ids of the comments in ids and of all their replies, at any depth
\* (Comment.replies, cascade="all, delete-orphan"; parent_id ON DELETE CASCADE).
RECURSIVE reply_closure(_, _)
reply_closure(rows, ids) ==
    LET more == {r.id : r \in {x \in rows : x.parent_id \in ids}}
    IN IF more \subseteq ids THEN ids ELSE reply_closure(rows, ids \cup more)

\* db.delete(comment) that removes the row alone.
delete_row_only(rows, comment_id) == {r \in rows : r.id # comment_id}

\* db.delete(comment); commit: the row and the rows the cascade reaches.
delete_cascade(rows, comment_id) ==
    {r \in rows : r.id \notin reply_closure(rows, {comment_id})}

\* order_by(desc(Comment.created_at)): the ids of the rows, newest first.
RECURSIVE newest_first(_)
newest_first(rows) ==
    IF rows = {} THEN <<>>
    ELSE LET m == CHOOSE r \in rows : \A q \in rows : q.created_at <= r.created_at
         IN <<m.id>> \o newest_first(rows \ {m})

\* .offset(offset).limit(limit) on an ordered result.
offset_limit(ordered, offset, limit) ==
    SubSeq(ordered, offset + 1,
           IF offset + limit <= Len(ordered) THEN offset + limit ELSE Len(ordered))

\* ceil(total / per_page) with has_next compared the wrong way round.
paginated_create_off(items, total, page, per_page) ==
    LET total_pages == IF per_page > 0 THEN (total + per_page - 1) \div per_page ELSE 0
    IN [ items |-> items, total |-> total, page |-> page, per_page |-> per_page,
         total_pages |-> total_pages, has_next |-> page <= total_pages,
         has_prev |-> page > 1 ]

\* PaginatedResponse.create: total_pages = ceil(total / per_page).
paginated_create(items, total, page, per_page) ==
    LET total_pages == IF per_page > 0 THEN (total + per_page - 1) \div per_page ELSE 0
    IN [ items |-> items, total |-> total, page |-> page, per_page |-> per_page,
         total_pages |-> total_pages, has_next |-> page < total_pages,
         has_prev |-> page > 1 ]

\* CommentRepository.list_by_blog: every comment row of the blog is counted
\* and listed (the query has no filter on parent_id).
list_by_blog(rows, blog_id, page, per_page) ==
    LET matching == {r \in rows : r.blog_id = blog_id}
        offset == (page - 1) * per_page
    IN paginated_create(offset_limit(newest_first(matching), offset, per_page),
                        Cardinality(matching), page, per_page)

\* The record of a call and its result.
CommentCall(op, blog_id, comment_id, user_id, parent_id, result, resp) ==
    [ op |-> op, result |-> result, blog |-> blog_id, comment |-> comment_id,
      user |-> user_id, parent |-> parent_id, resp |-> resp ]

CommentFrame ==
    UNCHANGED <<tags, usage_count, blogs, blog_slug, blog_tags, next_id, tx,
                tagname_vars, account_vars, query_vars>>

\* The call fails or returns without writing.
CommentRefused(call) ==
    /\ cres' = call
    /\ UNCHANGED <<comments, published, next_comment>>

\* CommentRepository.create / the insert of create_reply: add, commit.
CommentInserted(call, blog_id, author_id, parent_id) ==
    /\ next_comment <= MaxComments
    /\ comments' = comments \cup
           {new_comment(next_comment, blog_id, author_id, parent_id, NewContent)}
    /\ next_comment' = next_comment + 1
    /\ cres' = [call EXCEPT !.comment = next_comment]
    /\ UNCHANGED published

\* CommentService.create_comment(blog_id, author_id, data)
CreateComment(blog_id, author_id, parent_id) ==
    LET call(result) == CommentCall("create_comment", blog_id, None, author_id,
                                    parent_id, result, NoCall)
    IN /\ IF ~blog_found(blog_id, TRUE)
          THEN CommentRefused(call("blog_not_found"))
          ELSE IF blog_id \notin published
          THEN CommentRefused(call("not_commentable"))
          ELSE IF parent_id # None /\ comment_by_id(comments, parent_id) = {}
          THEN CommentRefused(call("integrity"))
          ELSE CommentInserted(call("ok"), blog_id, author_id, parent_id)
       /\ CommentFrame

\* CommentService.create_reply(blog_id, comment_id, author_id, data) and
\* CommentRepository.create_reply, which repeats the check on the parent.
CreateReply(blog_id, comment_id, author_id) ==
    LET call(result) == CommentCall("create_reply", blog_id, None, author_id,
                                    comment_id, result, NoCall)
        parent == comment_by_id(comments, comment_id)
    IN /\ IF ~blog_found(blog_id, FALSE)
          THEN CommentRefused(call("blog_not_found"))
          ELSE IF parent = {}
          THEN CommentRefused(call("parent_not_found"))
          ELSE IF \E r \in parent : r.blog_id # blog_id
          THEN CommentRefused(call("parent_not_found"))
          ELSE IF {r \in comments : r.id = comment_id /\ r.blog_id = blog_id} = {}
          THEN CommentRefused(call("value_error"))
          ELSE CommentInserted(call("ok"), blog_id, author_id, comment_id)
       /\ CommentFrame

\* CommentRepository.update: the row of this id, author and blog gets the
\* content and is_edited = True.
comment_update_content_only(rows, blog_id, comment_id, user_id, content) ==
    {IF r.id = comment_id /\ r.author_id = user_id /\ r.blog_id = blog_id
     THEN [r EXCEPT !.content = content] ELSE r : r \in rows}

comment_update(rows, blog_id, comment_id, user_id, content) ==
    {IF r.id = comment_id /\ r.author_id = user_id /\ r.blog_id = blog_id
     THEN [r EXCEPT !.content = content, !.is_edited = TRUE] ELSE r : r \in rows}

\* CommentService.update_comment(comment_id, blog_id, data, user_id)
UpdateComment(comment_id, blog_id, user_id) ==
    LET call(result) == CommentCall("update_comment", blog_id, comment_id, user_id,
                                    None, result, NoCall)
        found == comment_by_id(comments, comment_id)
    IN /\ IF ~blog_found(blog_id, FALSE)
          THEN CommentRefused(call("blog_not_found"))
          ELSE IF found = {}
          THEN CommentRefused(call("comment_not_found"))
          ELSE IF \E r \in found : r.author_id # user_id \/ r.blog_id # blog_id
          THEN CommentRefused(call("unauthorized"))
          ELSE /\ comments' = comment_update(comments, blog_id, comment_id,
                                              user_id, UpdatedContent)
               /\ cres' = call("ok")
               /\ UNCHANGED <<published, next_comment>>
       /\ CommentFrame

\* CommentService.delete_comment(blog_id, comment_id, user_id): the author's
\* call reads the local user before it is bound (UnboundLocalError); any
\* other user's call asks UserRepository for get_by_id, which it does not
\* have (AttributeError).  CommentRepository.delete is not reached.
DeleteComment(blog_id, comment_id, user_id) ==
    LET call(result) == CommentCall("delete_comment", blog_id, comment_id, user_id,
                                    None, result, NoCall)
        found == comment_by_id(comments, comment_id)
    IN /\ IF found = {}
          THEN CommentRefused(call("comment_not_found"))
          ELSE IF \E r \in found : r.blog_id # blog_id
          THEN CommentRefused(call("not_in_blog"))
          ELSE IF \E r \in found : r.author_id = user_id
          THEN CommentRefused(call("unbound_local_error"))
          ELSE CommentRefused(call("attribute_error"))
       /\ CommentFrame

\* CommentRepository.delete(blog_id, comment_id, user_id)
RepoDelete(blog_id, comment_id, user_id) ==
    LET call(result) == CommentCall("repo_delete", blog_id, comment_id, user_id,
                                    None, result, NoCall)
        found == {r \in comments : r.id = comment_id /\ r.author_id = user_id
                                   /\ r.blog_id = blog_id}
    IN /\ IF found = {}
          THEN CommentRefused(call("false"))
          ELSE /\ comments' = delete_cascade(comments, comment_id)
               /\ cres' = call("true")
               /\ UNCHANGED <<published, next_comment>>
       /\ CommentFrame

\* CommentRepository.delete_reply(reply_id, author_id, parent_comment_id)
RepoDeleteReply(reply_id, author_id, parent_comment_id) ==
    LET call(result) == CommentCall("repo_delete_reply", None, reply_id, author_id,
                                    parent_comment_id, result, NoCall)
        found == {r \in comments : r.id = reply_id /\ r.author_id = author_id
                                   /\ r.parent_id = parent_comment_id}
    IN /\ IF found = {}
          THEN CommentRefused(call("false"))
          ELSE /\ comments' = delete_cascade(comments, reply_id)
               /\ cres' = call("true")
               /\ UNCHANGED <<published, next_comment>>
       /\ CommentFrame

\* CommentRepository.update(blog_id, comment_id, user_id, content)
RepoUpdate(blog_id, comment_id, user_id) ==
    LET call(result) == CommentCall("repo_update", blog_id, comment_id, user_id,
                                    None, result, NoCall)
        found == {r \in comments : r.id = comment_id /\ r.author_id = user_id
                                   /\ r.blog_id = blog_id}
    IN /\ IF found = {}
          THEN CommentRefused(call("none"))
          ELSE /\ comments' = comment_update(comments, blog_id, comment_id,
                                              user_id, UpdatedContent)
               /\ cres' = call("ok")
               /\ UNCHANGED <<published, next_comment>>
       /\ CommentFrame

\* The assignments of update_reply to the row it selected.
reply_update(rows, reply_id, parent_comment_id, author_id, content) ==
    {IF r.id = reply_id /\ r.author_id = author_id
        /\ r.parent_id = parent_comment_id
     THEN [r EXCEPT !.content = content, !.is_edited = TRUE] ELSE r : r \in rows}

\* CommentRepository.update_reply(reply_id, parent_comment_id, author_id,
\* content)
RepoUpdateReply(reply_id, parent_comment_id, author_id) ==
    LET call(result) == CommentCall("repo_update_reply", None, reply_id, author_id,
                                    parent_comment_id, result, NoCall)
        found == {r \in comments : r.id = reply_id /\ r.author_id = author_id
                                   /\ r.parent_id = parent_comment_id}
    IN /\ IF found = {}
          THEN CommentRefused(call("none"))
          ELSE /\ comments' = reply_update(comments, reply_id, parent_comment_id,
                                            author_id, UpdatedContent)
               /\ cres' = call("ok")
               /\ UNCHANGED <<published, next_comment>>
       /\ CommentFrame

\* CommentService.list_comments(blog_id, pagination)
ListComments(blog_id, page, per_page) ==
    /\ CommentRefused(CommentCall("list_comments", blog_id, None, None, None, "ok",
                                  list_by_blog(comments, blog_id, page, per_page)))
    /\ CommentFrame

\* ------------------------------------------------------------ publication

\* A write of is_published alone, published_at left as it was.
set_publication_flag_only(blog_id, is_published, has_published_at) ==
    /\ published' = IF is_published THEN published \cup {blog_id}
                                     ELSE published \ {blog_id}
    /\ UNCHANGED published_at

\* update_dict = {"is_published": ..., "published_at": ...} applied to the row.
set_publication(blog_id, is_published, has_published_at) ==
    /\ published' = IF is_published THEN published \cup {blog_id}
                                     ELSE published \ {blog_id}
    /\ published_at' = IF has_published_at THEN published_at \cup {blog_id}
                                            ELSE published_at \ {blog_id}

\* update_blog, steps 4 and 5: given says updates.is_published is not None;
\* published_at follows a change of the flag, and both are written only
\* when the flag changes.
update_publication(blog_id, given, is_published) ==
    LET was == blog_id \in published
        at == IF given /\ is_published /\ ~was THEN TRUE
              ELSE IF given /\ ~is_published /\ was THEN FALSE
              ELSE blog_id \in published_at
    IN IF given /\ is_published # was
       THEN set_publication(blog_id, is_published, at)
       ELSE UNCHANGED <<published, published_at>>

PublicationFrame ==
    UNCHANGED <<tags, usage_count, blog_tags, tx, comments, next_comment,
                tagname_vars, likes, otp, otp_count, password, query_vars>>

\* The call fails before it writes.
PublicationRefused(op, blog_id, result) ==
    /\ cres' = CommentCall(op, blog_id, None, None, None, result, NoCall)
    /\ UNCHANGED <<blogs, blog_slug, next_id, published, published_at>>
    /\ PublicationFrame

\* BlogService.create_blog by an active author, without tags, for a title
\* whose slug is base_slug.
PubCreateBlog(base_slug, is_published) ==
    /\ next_id <= MaxBlogs
    /\ \E token \in Tokens :
         LET slug == blog_generate_unique_slug(blogs, blog_slug, base_slug, None, token)
         IN IF slug = SlugConflict
            THEN PublicationRefused("create_blog", None, "slug_conflict")
            ELSE /\ blogs' = blogs \cup {next_id}
                 /\ blog_slug' = [blog_slug EXCEPT ![next_id] = slug]
                 /\ next_id' = next_id + 1
                 /\ set_publication(next_id, is_published, is_published)
                 /\ cres' = CommentCall("create_blog", next_id, None, None, None,
                                        "ok", NoCall)
                 /\ PublicationFrame

\* BlogService.update_blog by the author: the title and the tags are not
\* given, is_published may be.
PubUpdateBlog(blog_id, given, is_published) ==
    IF blog_id \notin blogs
    THEN PublicationRefused("update_blog", blog_id, "blog_not_found")
    ELSE /\ update_publication(blog_id, given, is_published)
         /\ cres' = CommentCall("update_blog", blog_id, None, None, None, "ok", NoCall)
         /\ UNCHANGED <<blogs, blog_slug, next_id>>
         /\ PublicationFrame

\* BlogService.publish_blog by the author.
PublishBlog(blog_id) ==
    IF blog_id \notin blogs
    THEN PublicationRefused("publish_blog", blog_id, "blog_not_found")
    ELSE IF blog_id \in published
    THEN PublicationRefused("publish_blog", blog_id, "already_published")
    ELSE /\ set_publication(blog_id, TRUE, TRUE)
         /\ cres' = CommentCall("publish_blog", blog_id, None, None, None, "ok", NoCall)
         /\ UNCHANGED <<blogs, blog_slug, next_id>>
         /\ PublicationFrame

\* BlogService.unpublish_blog by the author.
UnpublishBlog(blog_id) ==
    IF blog_id \notin blogs
    THEN PublicationRefused("unpublish_blog", blog_id, "blog_not_found")
    ELSE IF blog_id \notin published
    THEN PublicationRefused("unpublish_blog", blog_id, "already_draft")
    ELSE /\ set_publication(blog_id, FALSE, FALSE)
         /\ cres' = CommentCall("unpublish_blog", blog_id, None, None, None, "ok", NoCall)
         /\ UNCHANGED <<blogs, blog_slug, next_id>>
         /\ PublicationFrame

\* There is no post.
InitPublish ==
    /\ tags = TagIds
    /\ usage_count = ZeroCounts
    /\ blogs = {}
    /\ blog_slug = [b \in BlogIds |-> NoSlug]
    /\ blog_tags = {}
    /\ next_id = 1
    /\ tx = [p \in Procs |-> IdleTx]
    /\ slugq = NoQuery
    /\ NoComments /\ NoTagNames /\ NoAccounts /\ NoQueries

NextPublish ==
    \/ \E base \in BaseSlugs, flag \in BOOLEAN : PubCreateBlog(base, flag)
    \/ \E b \in BlogIds, given, flag \in BOOLEAN : PubUpdateBlog(b, given, flag)
    \/ \E b \in BlogIds : PublishBlog(b)
    \/ \E b \in BlogIds : UnpublishBlog(b)

SpecPublish == InitPublish /\ [][NextPublish]_vars

\* BlogService.update_blog with is_published: the flag of the row changes.
SetPublished(blog_id, flag) ==
    /\ blog_id \in blogs
    /\ flag # (blog_id \in published)
    /\ update_publication(blog_id, TRUE, flag)
    /\ cres' = CommentCall("update_blog", blog_id, None, None, None, "ok", NoCall)
    /\ UNCHANGED <<blogs, blog_slug, next_id>>
    /\ PublicationFrame

\* Every post exists as a draft, there is no comment.
InitComment ==
    /\ tags = TagIds
    /\ usage_count = ZeroCounts
    /\ blogs = BlogIds
    /\ blog_slug = [b \in BlogIds |-> NoSlug]
    /\ blog_tags = {}
    /\ next_id = MaxBlogs + 1
    /\ tx = [p \in Procs |-> IdleTx]
    /\ slugq = NoQuery
    /\ NoComments /\ NoTagNames /\ NoAccounts /\ NoQueries

\* The comment tree: comments and replies by one author (user 2), their
\* deletion by the repository, the listing, the published flag.
NextComment ==
    \/ \E b \in BlogIds \cup {AbsentBlog}, c \in CommentIds \cup {None} :
          CreateComment(b, 2, c)
    \/ \E b \in BlogIds \cup {AbsentBlog}, c \in CommentIds : CreateReply(b, c, 2)
    \/ \E b \in BlogIds, u \in {2, 3}, c \in CommentIds : RepoDelete(b, c, u)
    \/ \E u \in {2, 3}, c, parent \in CommentIds : RepoDeleteReply(c, u, parent)
    \/ \E b \in BlogIds, page \in 1..2, per_page \in 1..2 : ListComments(b, page, per_page)
    \/ \E b \in BlogIds, flag \in BOOLEAN : SetPublished(b, flag)

SpecComment == InitComment /\ [][NextComment]_vars

\* Who may change a comment: comments and replies of any user, updated and
\* deleted through the service by any user.
NextCommentAuth ==
    \/ \E b \in BlogIds, u \in UserIds :
          next_comment <= MaxAuthComments /\ CreateComment(b, u, None)
    \/ \E b \in BlogIds, u \in UserIds, c \in CommentIds :
          next_comment <= MaxAuthComments /\ CreateReply(b, c, u)
    \/ \E b \in BlogIds, u \in UserIds, c \in CommentIds : UpdateComment(c, b, u)
    \/ \E b \in BlogIds, u \in UserIds, c \in CommentIds : DeleteComment(b, c, u)
    \/ \E b \in BlogIds, flag \in BOOLEAN : SetPublished(b, flag)

SpecCommentAuth == InitComment /\ [][NextCommentAuth]_vars

\* Comments and replies of two users and their updates, by the service and
\* by the repository.
NextEdit ==
    \/ \E b \in BlogIds, u \in {2, 3} :
          next_comment <= MaxAuthComments /\ CreateComment(b, u, None)
    \/ \E b \in BlogIds, u \in {2, 3}, c \in CommentIds :
          next_comment <= MaxAuthComments /\ CreateReply(b, c, u)
    \/ \E b \in BlogIds, u \in {2, 3}, c \in CommentIds : UpdateComment(c, b, u)
    \/ \E b \in BlogIds, u \in {2, 3}, c \in CommentIds : RepoUpdate(b, c, u)
    \/ \E u \in {2, 3}, c, parent \in CommentIds : RepoUpdateReply(c, parent, u)
    \/ \E b \in BlogIds, flag \in BOOLEAN : SetPublished(b, flag)

SpecEdit == InitComment /\ [][NextEdit]_vars

\* ------------------------------------------------------------- pagination

\* PaginationParams: per_page is at most 100.
PerPageLimit == 100

\* The result of a query of total rows, newest first.
ordered_rows(total) == [i \in 1..total |-> total + 1 - i]

\* A request: the page and per_page of PaginationParams, the rows counted.
PageRequests ==
    [ op : {"request"}, total : 0..MaxTotal, page : 1..MaxPage,
      per_page : (1..MaxPerPage) \cup {PerPageLimit} ]

InitPage ==
    /\ InitComment!1 /\ InitComment!2 /\ InitComment!3 /\ InitComment!4
    /\ InitComment!5 /\ InitComment!6 /\ InitComment!7
    /\ slugq = NoQuery
    /\ NoComments /\ NoTagNames /\ NoAccounts
    /\ pageq \in PageRequests
    /\ tagsq = NoCall

\* list_by_blog on the counted rows: offset, limit, PaginatedResponse.create.
Paginate ==
    /\ pageq.op = "request"
    /\ pageq' = [ op |-> "response", total |-> pageq.total, page |-> pageq.page,
                  per_page |-> pageq.per_page,
                  resp |-> paginated_create(
                      offset_limit(ordered_rows(pageq.total),
                                   (pageq.page - 1) * pageq.per_page, pageq.per_page),
                      pageq.total, pageq.page, pageq.per_page) ]
    /\ UNCHANGED <<tags, usage_count, blogs, blog_slug, blog_tags, next_id, tx,
                   comment_vars, tagname_vars, account_vars, slugq, tagsq>>

NextPage == Paginate

SpecPage == InitPage /\ [][NextPage]_vars

\* ------------------------------------------------- requested tag names

\* A tag name as typed is <<word, upper, padded>>: the letters ignoring case
\* (0 for none), whether it is written in upper case, whether it has
\* surrounding whitespace.
TypedName(word, upper, padded) == <<word, upper, padded>>

\* str.strip()
strip(name) == <<name[1], name[2], FALSE>>

\* str.lower()
lower(name) == <<name[1], FALSE, name[3]>>

\* `tag.strip()` is falsy: nothing but whitespace.
is_blank(name) == name[1] = 0

\* Maximum 10 tags allowed per blog.
TagCap == 10

\* The loop of validate_tags from position i on: strip, skip blanks, append
\* what is not yet in cleaned_tags.
RECURSIVE cleaned_tags(_, _, _)
cleaned_tags(v, i, cleaned) ==
    IF i > Len(v) THEN cleaned
    ELSE LET tag_clean == strip(v[i])
         IN IF is_blank(v[i]) \/ \E k \in 1..Len(cleaned) : cleaned[k] = tag_clean
            THEN cleaned_tags(v, i + 1, cleaned)
            ELSE cleaned_tags(v, i + 1, Append(cleaned, tag_clean))

\* BlogCreate.validate_tags / BlogUpdate.validate_tags
validate_tags(v) ==
    LET cleaned == cleaned_tags(v, 1, <<>>)
    IN IF Len(cleaned) > TagCap
       THEN [result |-> "validation_error", tags |-> <<>>]
       ELSE [result |-> "ok", tags |-> cleaned]

\* A request body: words in lower case, then upper-case spellings of the
\* first words, then padded spellings of the first words, then blanks.
typed_list(words, uppers, paddeds, blanks) ==
    [i \in 1..words |-> TypedName(i, FALSE, FALSE)]
    \o [i \in 1..uppers |-> TypedName(i, TRUE, FALSE)]
    \o [i \in 1..paddeds |-> TypedName(i, TRUE, TRUE)]
    \o [i \in 1..blanks |-> TypedName(0, FALSE, TRUE)]

TagRequests ==
    {[op |-> "request", tags |-> typed_list(w, u, q, b)] :
        w \in 0..MaxNames, u \in 0..MaxVariants, q \in 0..MaxVariants, b \in 0..1}

InitTags ==
    /\ InitComment!1 /\ InitComment!2 /\ InitComment!3 /\ InitComment!4
    /\ InitComment!5 /\ InitComment!6 /\ InitComment!7
    /\ slugq = NoQuery
    /\ NoComments /\ NoTagNames /\ NoAccounts
    /\ pageq = NoCall
    /\ tagsq \in TagRequests

\* The request body is validated.
ValidateRequest ==
    /\ tagsq.op = "request"
    /\ tagsq' = [op |-> "response", tags |-> tagsq.tags, resp |-> validate_tags(tagsq.tags)]
    /\ UNCHANGED <<tags, usage_count, blogs, blog_slug, blog_tags, next_id, tx,
                   comment_vars, tagname_vars, account_vars, slugq, pageq>>

NextTags == ValidateRequest

SpecTags == InitTags /\ [][NextTags]_vars

\* ------------------------------------------------------------- tag names

\* The names tags are given: a word, in lower or in upper case, stripped.
TagNames == {TypedName(w, u, FALSE) : w \in 1..MaxWords, u \in BOOLEAN}

\* generate_seo_optimized_slug(text): the word in lower case; a text with no
\* word in it (punctuation, stopwords) gives the empty slug.
generate_seo_optimized_slug(name) ==
    IF name[1] = 0 THEN <<0>> ELSE <<200 + name[1]>>

\* TagRepository.get_by_name: func.lower(Tag.name) == name.lower()
get_by_name(rows, names, name) == {t \in rows : lower(names[t]) = lower(name)}

\* The unique indexes on Tag.name and Tag.slug reject the row of tag_id.
tag_unique_violated(rows, names, slugs, tag_id, name, slug) ==
    \E t \in rows \ {tag_id} : names[t] = name \/ slugs[t] = slug

\* Creations begun by other sessions that have not inserted their row yet.
PendingTagCreates(p) ==
    Cardinality({q \in Procs \ {p} : Active(q) /\ tx[q].op = "create_tag"})

\* TagService.create_tag(tag_data, current_user) is called.
BeginCreateTag(p, actor, name) ==
    /\ CanBegin(p)
    /\ Cardinality(tags) + PendingTagCreates(p) < MaxTags
    /\ Goto(p, [IdleTx EXCEPT !.op = "create_tag", !.pc = "create_check",
                              !.actor = actor, !.name = name])
    /\ UNCHANGED next_id

\* TagService.update_tag(tag_id, tag_data, current_user) is called.
BeginUpdateTag(p, tag_id, actor, name) ==
    /\ CanBegin(p)
    /\ Goto(p, [IdleTx EXCEPT !.op = "update_tag", !.pc = "update_check",
                              !.actor = actor, !.tag = tag_id, !.name = name])
    /\ UNCHANGED next_id

\* create_tag: _require_admin, then the check of the name.
CreateCheck(p) ==
    /\ tx[p].pc = "create_check"
    /\ IF require_admin_fails(tx[p].actor)
       THEN Rollback(p, "unauthorized")
       ELSE IF get_by_name(tags, tag_name, tx[p].name) # {}
       THEN Rollback(p, "tag_exists")
       ELSE Goto(p, [tx[p] EXCEPT !.pc = "tag_slug"])
    /\ UNCHANGED next_id

\* update_tag: _require_admin, get_by_id, then the check of the new name
\* when it differs from the tag's.
UpdateCheck(p) ==
    /\ tx[p].pc = "update_check"
    /\ IF require_admin_fails(tx[p].actor)
       THEN Rollback(p, "unauthorized")
       ELSE IF tx[p].tag \notin tags
       THEN Rollback(p, "tag_not_found")
       ELSE IF tx[p].name = tag_name[tx[p].tag]
       THEN Goto(p, [tx[p] EXCEPT !.pc = "tag_update", !.slug = tag_slug[tx[p].tag]])
       ELSE IF \E t \in get_by_name(tags, tag_name, tx[p].name) : t # tx[p].tag
       THEN Rollback(p, "tag_exists")
       ELSE Goto(p, [tx[p] EXCEPT !.pc = "tag_slug"])
    /\ UNCHANGED next_id

\* self._generate_unique_slug(name) / (name, exclude_id=tag_id)
TagGenerateSlug(p) ==
    /\ tx[p].pc = "tag_slug"
    /\ \E token \in Tokens :
         Goto(p, [tx[p] EXCEPT
             !.slug = tag_generate_unique_slug(tags, tag_slug,
                          generate_seo_optimized_slug(tx[p].name),
                          IF tx[p].op = "update_tag" THEN tx[p].tag ELSE None, token),
             !.pc = IF tx[p].op = "update_tag" THEN "tag_update" ELSE "tag_create"])
    /\ UNCHANGED next_id

\* The row of tag_id is written with the name and the slug, and committed.
tag_written(p, tag_id) ==
    /\ tags' = tags \cup {tag_id}
    /\ tag_name' = [tag_name EXCEPT ![tag_id] = tx[p].name]
    /\ tag_slug' = [tag_slug EXCEPT ![tag_id] = tx[p].slug]
    /\ tx' = [tx EXCEPT ![p] = Closed([tx[p] EXCEPT !.tag = tag_id], "ok")]
    /\ UNCHANGED <<usage_count, blogs, blog_slug, blog_tags, comment_vars,
                 account_vars, query_vars>>

\* TagRepository.create: add, commit.
TagCreate(p) ==
    /\ tx[p].pc = "tag_create"
    /\ tags # TagIds
    /\ LET tag_id == CHOOSE t \in TagIds \ tags : \A u \in TagIds \ tags : t <= u
       IN IF tag_unique_violated(tags, tag_name, tag_slug, tag_id, tx[p].name, tx[p].slug)
          THEN Rollback(p, "integrity")
          ELSE tag_written(p, tag_id)
    /\ UNCHANGED next_id

\* TagRepository.update: get_by_id, setattr, commit.
TagUpdate(p) ==
    /\ tx[p].pc = "tag_update"
    /\ IF tx[p].tag \notin tags
       THEN Rollback(p, "none")
       ELSE IF tag_unique_violated(tags, tag_name, tag_slug, tx[p].tag,
                                   tx[p].name, tx[p].slug)
       THEN Rollback(p, "integrity")
       ELSE tag_written(p, tx[p].tag)
    /\ UNCHANGED next_id

\* There is no tag.
InitTag ==
    /\ tags = {}
    /\ usage_count = ZeroCounts
    /\ blogs = {}
    /\ blog_slug = [b \in BlogIds |-> NoSlug]
    /\ blog_tags = {}
    /\ next_id = 1
    /\ tx = [p \in Procs |-> IdleTx]
    /\ slugq = NoQuery
    /\ NoComments /\ NoTagNames /\ NoAccounts /\ NoQueries

TagStep(p) ==
    \/ CreateCheck(p)
    \/ UpdateCheck(p)
    \/ TagGenerateSlug(p)
    \/ TagCreate(p)
    \/ TagUpdate(p)

\* The calls of an admin or a plain user.
TagCall(p) ==
    \/ \E actor \in {Admin, [Admin EXCEPT !.role = "user"]}, name \in TagNames :
          BeginCreateTag(p, actor, name)
    \/ \E actor \in {Admin, [Admin EXCEPT !.role = "user"]}, t \in TagIds,
          name \in TagNames : BeginUpdateTag(p, t, actor, name)

\* Two sessions, any interleaving of their calls.
NextTag == \E p \in Procs : TagCall(p) \/ TagStep(p)

SpecTag == InitTag /\ [][NextTag]_vars

\* The titles and names slugs are generated from: a word, or no word at all
\* (a text such as "!!!" or "the" passes min_length=1).
SlugTexts == TagNames \cup {TypedName(0, FALSE, FALSE)}

\* Posts and tags are created, tags renamed, by an admin in one session.
NextEmpty ==
    \/ \E title \in SlugTexts, flag \in BOOLEAN :
          PubCreateBlog(generate_seo_optimized_slug(title), flag)
    \/ \E name \in SlugTexts : BeginCreateTag(1, Admin, name)
    \/ \E t \in TagIds, name \in SlugTexts : BeginUpdateTag(1, t, Admin, name)
    \/ TagStep(1)

SpecEmpty == InitTag /\ [][NextEmpty]_vars

\* ------------------------------------------------- the tag service alone

\* The calls of the tag service by any actor.
AdminCall(p) ==
    \/ \E actor \in Actors, name \in TagNames : BeginCreateTag(p, actor, name)
    \/ \E actor \in Actors, t \in TagIds, name \in TagNames :
          BeginUpdateTag(p, t, actor, name)
    \/ \E actor \in Actors, t \in TagIds : BeginDeleteTag(p, t, actor)

AdminStep(p) ==
    \/ TagStep(p)
    \/ RequireAdmin(p)
    \/ TagRead(p)
    \/ TagGet(p)
    \/ TagDeleteAssoc(p)
    \/ TagDeleteRow(p)

\* One session: the calls run to completion one at a time.
NextAdmin == AdminCall(1) \/ AdminStep(1)

SpecAdmin == InitTag /\ [][NextAdmin]_vars

\* ------------------------------------------------- what a post owns

\* A row of table likes: kind is "blog" or "comment", target the id of the
\* blog or of the comment.
new_like(id, user_id, kind, target) ==
    [id |-> id, user_id |-> user_id, kind |-> kind, target |-> target]

\* The likes left when the blogs and the comments of these ids are deleted
\* (Blog.likes, Comment.likes: cascade="all, delete-orphan").
likes_without(rows, blog_ids, comment_ids) ==
    {l \in rows : /\ ~(l.kind = "blog" /\ l.target \in blog_ids)
                  /\ ~(l.kind = "comment" /\ l.target \in comment_ids)}

\* The ids of the comments deleted with the blog: its comments
\* (Blog.comments) and, through Comment.replies, all replies to them.
comments_of_blog(rows, blog_id) ==
    reply_closure(rows, {r.id : r \in {x \in rows : x.blog_id = blog_id}})

\* BlogRepository.delete_blog(blog_id), the whole call.
DeleteBlog(blog_id) ==
    /\ IF blog_id \notin blogs
       THEN /\ cres' = CommentCall("delete_blog", blog_id, None, None, None,
                                   "false", NoCall)
            /\ UNCHANGED <<blogs, blog_slug, blog_tags, usage_count, comments,
                           published, published_at, likes>>
       ELSE LET current_tag_ids == get_blog_tag_ids(blog_tags, blog_id)
                gone == comments_of_blog(comments, blog_id)
            IN /\ blogs' = blogs \ {blog_id}
               /\ blog_slug' = [blog_slug EXCEPT ![blog_id] = NoSlug]
               /\ blog_tags' = delete_blog_tag_rows(blog_tags, blog_id)
               /\ usage_count' = decrement_tag_usage_counts(usage_count, tags,
                                                            current_tag_ids)
               /\ comments' = {r \in comments : r.id \notin gone}
               /\ likes' = likes_without(likes, {blog_id}, gone)
               /\ published' = published \ {blog_id}
               /\ published_at' = published_at \ {blog_id}
               /\ cres' = CommentCall("delete_blog", blog_id, None, None, None,
                                      "true", NoCall)
    /\ UNCHANGED <<tags, next_id, tx, next_comment, tagname_vars, otp, otp_count,
                   password, query_vars>>

\* Both posts are published, each with some tags; there is no comment.
InitOwn ==
    /\ tags = TagIds
    /\ blogs = BlogIds
    /\ blog_slug = [b \in BlogIds |-> Candidate(<<201>>, b)]
    /\ \E tagsOf \in [BlogIds -> SUBSET TagIds] :
          blog_tags = {r \in BlogIds \X TagIds : r[2] \in tagsOf[r[1]]}
    /\ usage_count = [t \in TagIds |-> PostsWith(blog_tags, t)]
    /\ next_id = MaxBlogs + 1
    /\ tx = [p \in Procs |-> IdleTx]
    /\ slugq = NoQuery
    /\ comments = {} /\ next_comment = 1
    /\ cres = [op |-> "none", result |-> "none", blog |-> None, comment |-> None,
               user |-> None, parent |-> None, resp |-> NoCall]
    /\ published = BlogIds /\ published_at = BlogIds
    /\ likes = {}
    /\ otp = [u \in UserIds |-> None]
    /\ otp_count = 0
    /\ password = [u \in UserIds |-> OldPassword]
    /\ NoTagNames /\ NoQueries

\* Comments and replies are written, posts are deleted.
NextOwn ==
    \/ \E b \in BlogIds, c \in CommentIds \cup {None} : CreateComment(b, 2, c)
    \/ \E b \in BlogIds, c \in CommentIds : CreateReply(b, c, 2)
    \/ \E b \in BlogIds : DeleteBlog(b)

SpecOwn == InitOwn /\ [][NextOwn]_vars

\* ------------------------------------------------------------------ likes

\* The rows a specification of likes may hold.
MaxLikes == 3

\* The rows get_like selects: the user's likes of the target.
get_like(rows, user_id, target) ==
    {l \in rows : l.user_id = user_id /\ l.kind = target.kind
                  /\ l.target = target.id}

\* The foreign key of Like.blog_id / Like.comment_id has a row to point at.
like_target_exists(target) ==
    IF target.kind = "blog" THEN target.id \in blogs
    ELSE \E c \in comments : c.id = target.id

\* LikeService.like / unlike(user_id, target_id, target_type) is called;
\* get_by_id of the target is awaited and its result dropped.
BeginLike(p, op, user_id, target) ==
    /\ CanBegin(p)
    /\ Goto(p, [IdleTx EXCEPT !.op = op, !.pc = "get_like",
                              !.user = user_id, !.target = target])
    /\ UNCHANGED next_id

\* LikeRepository.get_like: scalar_one_or_none raises MultipleResultsFound
\* on more than one row.
GetLike(p) ==
    /\ tx[p].pc = "get_like"
    /\ LET found == get_like(likes, tx[p].user, tx[p].target)
       IN IF Cardinality(found) > 1
          THEN Rollback(p, "multiple_results")
          ELSE Goto(p, [tx[p] EXCEPT !.existing = found,
                   !.pc = IF tx[p].op = "like" THEN "create_like" ELSE "delete_like"])
    /\ UNCHANGED next_id

\* The session's call wrote table likes and committed; the service then
\* calls increment_like_count / decrement_like_count, which the
\* repositories do not define (AttributeError).
like_written(p, rows) ==
    /\ likes' = rows
    /\ tx' = [tx EXCEPT ![p] = Closed(tx[p], "attribute_error")]
    /\ UNCHANGED <<tags, usage_count, blogs, blog_slug, blog_tags, comment_vars,
                   tagname_vars, published_at, otp, otp_count, password, query_vars>>

\* LikeRepository.create_like after get_like: raise on an existing like,
\* else add and commit.
CreateLike(p) ==
    /\ tx[p].pc = "create_like"
    /\ IF tx[p].existing # {}
       THEN Rollback(p, "like_conflict")
       ELSE IF ~like_target_exists(tx[p].target)
       THEN Rollback(p, "integrity")
       ELSE /\ Cardinality(likes) < MaxLikes
            /\ LET id == CHOOSE i \in 1..MaxLikes : \A l \in likes : l.id # i
               IN like_written(p, likes \cup {new_like(id, tx[p].user,
                                        tx[p].target.kind, tx[p].target.id)})
    /\ UNCHANGED next_id

\* LikeRepository.delete_like after get_like: raise when there is no like,
\* else delete the row found and commit.
DeleteLike(p) ==
    /\ tx[p].pc = "delete_like"
    /\ IF tx[p].existing = {}
       THEN Rollback(p, "like_conflict")
       ELSE like_written(p, likes \ tx[p].existing)
    /\ UNCHANGED next_id

\* Both posts exist, nobody liked anything.
InitLike ==
    /\ InitComment!1 /\ InitComment!2 /\ InitComment!3 /\ InitComment!4
    /\ InitComment!5 /\ InitComment!6 /\ InitComment!7 /\ InitComment!8
    /\ NoComments /\ NoTagNames /\ NoAccounts /\ NoQueries

\* A post, and a comment that does not exist.
LikeTargets == {[kind |-> "blog", id |-> 1], [kind |-> "comment", id |-> 1]}

LikeCall(p) ==
    \E op \in {"like", "unlike"}, u \in {2, 3}, target \in LikeTargets :
       BeginLike(p, op, u, target)

LikeStep(p) == GetLike(p) \/ CreateLike(p) \/ DeleteLike(p)

\* Two sessions, any interleaving of their like and unlike calls.
NextLike == \E p \in Procs : LikeCall(p) \/ LikeStep(p)

SpecLike == InitLike /\ [][NextLike]_vars

\* --------------------------------------------------------- password reset

\* The reset codes that are generated.
MaxCodes == 2

\* The passwords a reset sets.
NewPasswords == {2, 3}

\* hash_otp_code(code): sha256 of the code and the secret.
hash_otp_code(code) == 1000 + code

\* verify_otp_code(code, hashed_code)
verify_otp_code(code, hashed_code) == hash_otp_code(code) = hashed_code

\* hash_password(new_password)
hash_password(plain) == 100 + plain

\* AuthService.generate_and_send_otp(email) for a user: a fresh code is
\* cached under the user's key (the codes are told apart by their number).
GenerateOtp(user_id) ==
    /\ otp_count < MaxCodes
    /\ otp_count' = otp_count + 1
    /\ otp' = [otp EXCEPT ![user_id] = hash_otp_code(otp_count + 1)]
    /\ UNCHANGED <<tags, usage_count, blogs, blog_slug, blog_tags, next_id, tx,
                   comment_vars, tagname_vars, published_at, likes, password,
                   query_vars>>

\* The key expires (ex=settings.otp_expires_seconds).
ExpireOtp(user_id) ==
    /\ otp[user_id] # None
    /\ otp' = [otp EXCEPT ![user_id] = None]
    /\ UNCHANGED <<tags, usage_count, blogs, blog_slug, blog_tags, next_id, tx,
                   comment_vars, tagname_vars, published_at, likes, otp_count,
                   password, query_vars>>

\* AuthService.verify_otp_and_update_password(email, otp, new_password) is
\* called; user_id is None when the email is nobody's.
BeginReset(p, user_id, code, new_password) ==
    /\ CanBegin(p)
    /\ Goto(p, [IdleTx EXCEPT !.op = "reset", !.pc = "get_otp", !.user = user_id,
                              !.code = code, !.new_password = new_password])
    /\ UNCHANGED next_id

\* get_user_by_email, get_otp and the comparison.
ResetGetOtp(p) ==
    /\ tx[p].pc = "get_otp"
    /\ IF tx[p].user = None
       THEN Rollback(p, "not_found")
       ELSE LET cached_otp == otp[tx[p].user]
            IN IF cached_otp = None \/ ~verify_otp_code(tx[p].code, cached_otp)
               THEN Rollback(p, "invalid_or_expired")
               ELSE Goto(p, [tx[p] EXCEPT !.pc = "delete_otp"])
    /\ UNCHANGED next_id

\* await self._otp_repo.delete_otp(user.id)
ResetDeleteOtp(p) ==
    /\ tx[p].pc = "delete_otp"
    /\ otp' = [otp EXCEPT ![tx[p].user] = None]
    /\ tx' = [tx EXCEPT ![p].pc = "update_password"]
    /\ UNCHANGED <<tags, usage_count, blogs, blog_slug, blog_tags, next_id,
                   comment_vars, tagname_vars, published_at, likes, otp_count,
                   password, query_vars>>

\* update_user_password(user.id, hash_password(new_password)); return user.
ResetUpdatePassword(p) ==
    /\ tx[p].pc = "update_password"
    /\ password' = [password EXCEPT ![tx[p].user] = hash_password(tx[p].new_password)]
    /\ tx' = [tx EXCEPT ![p] = Closed(tx[p], "ok")]
    /\ UNCHANGED <<tags, usage_count, blogs, blog_slug, blog_tags, next_id,
                   comment_vars, tagname_vars, published_at, likes, otp,
                   otp_count, query_vars>>

ResetCall(p) ==
    \E user_id \in {2, None}, code \in (1..MaxCodes) \cup {None},
       new_password \in NewPasswords : BeginReset(p, user_id, code, new_password)

ResetStep(p) == ResetGetOtp(p) \/ ResetDeleteOtp(p) \/ ResetUpdatePassword(p)

\* Two sessions reset the password of user 2; codes are sent and expire.
NextReset ==
    \/ GenerateOtp(2)
    \/ ExpireOtp(2)
    \/ \E p \in Procs : ResetCall(p) \/ ResetStep(p)

SpecReset == InitLike /\ [][NextReset]_vars

\* ------------------------------------------------------------- properties

Done(p) == tx[p].pc = "done"

\* Every tag's usage_count is the number of posts associated with it.
CountsMatch == \A t \in tags : usage_count[t] = PostsWith(blog_tags, t)

\* C1: after any sequence of create_with_tags, update_with_tags and
\* delete_blog calls (and delete_tag calls) run one at a time from unused
\* tags, the committed usage_count of every tag equals the number of posts
\* associated with it.  (Spec)
C1_UsageCountEqualsPosts == CountsMatch

\* One of two posts carrying a tag has been deleted: the tag counts one post.
C1_Witness ==
    /\ Done(1) /\ tx[1].op = "delete_blog" /\ tx[1].result = "ok"
    /\ \E t \in tags : usage_count[t] = 1 /\ \E b \in blogs : <<b, t>> \in blog_tags

\* C2: when two update_with_tags calls on the same post, interleaved in any
\* way under read committed, have both committed, every tag's usage_count
\* equals the number of posts associated with it.  (SpecTx)
C2_ConcurrentReplaceKeepsCounts ==
    ( /\ \A p \in Procs : /\ Done(p) /\ tx[p].op = "update_with_tags"
                          /\ tx[p].result = "ok"
      /\ tx[1].blog = tx[2].blog )
    => CountsMatch

\* Both replacements of the same post's tags committed, with different sets,
\* the first replacing a non-empty set.
C2_Witness ==
    /\ \A p \in Procs : /\ Done(p) /\ tx[p].op = "update_with_tags"
                        /\ tx[p].result = "ok"
    /\ tx[1].blog = tx[2].blog
    /\ Range(tx[1].ids) # Range(tx[2].ids)
    /\ get_blog_tag_ids(blog_tags, tx[1].blog) # {}
    /\ \E t \in tags : usage_count[t] = 0

\* Session q made a call that associates tag t with a post: a creation
\* naming it, or a replacement on an existing post listing it once.
Associates(q, t) ==
    \/ tx[q].op = "create_blog" /\ t \in tx[q].names
    \/ /\ tx[q].op = "update_with_tags" /\ tx[q].blog \in blogs
       /\ tx[q].ids \in {SetToSeq(S) : S \in SUBSET TagIds} /\ t \in Range(tx[q].ids)

\* C3: of a delete_tag(T) and a concurrent creation or replacement that
\* associates T, either the association commits and delete_tag fails with
\* the tag-in-use error, or the deletion commits and the association fails;
\* and no row of blog_tags references a tag that is gone.  (SpecTx)
C3_DeleteTagVersusAssociate ==
    /\ \A p, q \in Procs :
          ( /\ p # q /\ Done(p) /\ Done(q)
            /\ tx[p].op = "delete_tag" /\ Associates(q, tx[p].tag) )
          => \/ tx[q].result = "ok" /\ tx[p].result = "tag_in_use"
             \/ tx[p].result = "ok" /\ tx[q].result \in {"tag_not_found", "integrity"}
    /\ \A r \in blog_tags : r[2] \in tags

\* C4: delete_tag by an admin on a tag whose usage_count is above 0 fails
\* with the tag-in-use error, and no step of the call changes a table: the
\* tag row, its usage_count and the rows of blog_tags stay as they
\* were.  (Spec)
C4_DeleteTagInUseRejected ==
    [][ ( /\ tx[1].op = "delete_tag" /\ Active(1)
          /\ ~require_admin_fails(tx[1].actor)
          /\ tx[1].tag \in tags /\ usage_count[tx[1].tag] > 0 )
        => /\ UNCHANGED <<tags, usage_count, blog_tags, blogs, blog_slug>>
           /\ tx'[1].pc = "done" => tx'[1].result = "tag_in_use" ]_vars

\* A delete_tag was rejected with the tag-in-use error; the tag is there.
C4_Witness ==
    /\ Done(1) /\ tx[1].op = "delete_tag" /\ tx[1].result = "tag_in_use"
    /\ tx[1].tag \in tags /\ usage_count[tx[1].tag] > 0
    /\ \E b \in blogs : <<b, tx[1].tag>> \in blog_tags

\* C5: usage_count is never negative, in the committed rows and in what a
\* session has written, after any sequence of increments and decrements; a
\* decrement of a count that is 0 leaves it 0.  (SpecAcct)
C5_UsageCountNonNegative ==
    /\ \A t \in TagIds : usage_count[t] >= 0
    /\ \A p \in Procs : \A t \in tx[p].cnt_w : tx[p].cnt_v[t] >= 0

\* A decrement has been applied to a tag whose committed count is 0.
C5_Witness ==
    /\ tx[1].pc = "commit"
    /\ tx[1].op \in {"decrement_tag_usage_counts", "decrement_usage_counts"}
    /\ \E t \in tx[1].cnt_w : usage_count[t] = 0 /\ tx[1].cnt_v[t] = 0

\* C6: a replacement of a post's tags that repeats the replacement just
\* committed (same post, same set) changes neither blog_tags nor any
\* usage_count, at any of its steps.  (Spec)
C6_ReplaceTwiceIdempotent ==
    [][ ( /\ tx[1].op = "update_with_tags" /\ Active(1) /\ tx[1].repeat )
        => UNCHANGED <<blog_tags, usage_count>> ]_vars

\* The repeated replacement, with a non-empty set, has committed.
C6_Witness ==
    /\ Done(1) /\ tx[1].op = "update_with_tags" /\ tx[1].repeat
    /\ tx[1].result = "ok" /\ tx[1].ids # NoneIds /\ Len(tx[1].ids) > 0
    /\ \A t \in Range(tx[1].ids) : <<tx[1].blog, t>> \in blog_tags /\ usage_count[t] > 0

\* The slug is held by a row of the queried table other than the excluded one.
HeldByOther(slug) ==
    \E r \in slugq.rows :
        slugq.slugs[r] = slug /\ (slugq.exclude # None => r # slugq.exclude)

\* The base slug (n = 0) or its n-th numbered form.
Numbered(n) == IF n = 0 THEN slugq.base ELSE slugq.base \o <<n>>

\* C7: the slug a resolver returns is never held by another row, in the
\* post path and in the tag path, the uuid fallback included.  (SpecSlug)
C7_ResolvedSlugIsFree ==
    /\ slugq.blog_result \notin {NoSlug, SlugConflict} => ~HeldByOther(slugq.blog_result)
    /\ slugq.tag_result \notin {NoSlug, SlugConflict} => ~HeldByOther(slugq.tag_result)

\* C8: when the base or one of base-1 .. base-100 is free, both resolvers
\* return the first free one in the order base, base-1, ..., base-100; with
\* base .. base-5 held and base-6 free the result is base-6.  (SpecSlug)
C8_FirstFreeCandidate ==
    LET free == {n \in 0..100 : ~HeldByOther(Numbered(n))}
        first == CHOOSE n \in free : \A m \in free : n <= m
    IN free # {} =>
         /\ slugq.blog_result # NoSlug => slugq.blog_result = Numbered(first)
         /\ slugq.tag_result # NoSlug => slugq.tag_result = Numbered(first)

\* base .. base-5 are held, base-6 is free, both resolvers returned base-6.
C8_Witness ==
    /\ slugq.exclude = None
    /\ \A n \in 0..5 : HeldByOther(Numbered(n))
    /\ ~HeldByOther(Numbered(6))
    /\ slugq.blog_result = slugq.base \o <<6>>
    /\ slugq.tag_result = slugq.base \o <<6>>

\* C9: on the same base and the same existing slugs the post resolver and
\* the tag resolver agree: the same slug, or both fail; and they fail only
\* when the base, the 100 numbered forms and the fallback are all
\* held.  (SpecSlug)
C9_ResolversAgree ==
    (slugq.blog_result # NoSlug /\ slugq.tag_result # NoSlug)
    => /\ slugq.blog_result = slugq.tag_result
       /\ slugq.blog_result = SlugConflict =>
             /\ \A n \in 0..100 : HeldByOther(Numbered(n))
             /\ HeldByOther(slugq.base \o <<slugq.token>>)

\* C10: no two committed posts share a slug; of two creations that resolved
\* the same slug at most one commits, and a creation that failed left no
\* row.  (SpecTx)
C10_SlugsStayUnique ==
    /\ \A a, b \in blogs : a # b => blog_slug[a] # blog_slug[b]
    /\ \A p, q \in Procs :
          ( /\ p # q /\ Done(p) /\ Done(q)
            /\ tx[p].op = "create_blog" /\ tx[q].op = "create_blog"
            /\ tx[p].slug # NoSlug /\ tx[p].slug = tx[q].slug )
          => ~(tx[p].result = "ok" /\ tx[q].result = "ok")
    /\ \A p \in Procs :
          (Done(p) /\ tx[p].op = "create_blog" /\ tx[p].result # "ok")
          => /\ tx[p].blog \notin blogs
             /\ \A r \in blog_tags : r[1] # tx[p].blog

\* Two creations resolved the same slug: one committed, the other was
\* rejected by the unique index and left no row.
C10_Witness ==
    \E p, q \in Procs :
        /\ p # q /\ Done(p) /\ Done(q)
        /\ tx[p].op = "create_blog" /\ tx[q].op = "create_blog"
        /\ tx[p].slug = tx[q].slug
        /\ tx[p].result = "ok" /\ tx[q].result = "slug_conflict"
        /\ Cardinality({b \in blogs : blog_slug[b] = tx[p].slug}) = 1


\* ---------------------------------------------------- comments: properties

\* The ids on the parent chain of the comment id: its parent, the parent of
\* its parent, and so on.
RECURSIVE AncestorIds(_, _)
AncestorIds(rows, id) ==
    LET own == {r \in rows : r.id = id}
    IN IF own = {} THEN {}
       ELSE LET p == (CHOOSE r \in own : TRUE).parent_id
            IN IF p = None THEN {} ELSE {p} \cup AncestorIds(rows, p)

\* The replies to the comment id, at any depth.
Descendants(rows, id) == {r \in rows : id \in AncestorIds(rows, r.id)}

\* C11: every comment that has a parent has it among the comments, on the
\* same post; a create_comment naming a parent that is missing or on another
\* post ends with parent-not-found.
C11_ParentOnSamePost ==
    /\ \A r \in comments :
          r.parent_id # None =>
              \E q \in comments : q.id = r.parent_id /\ q.blog_id = r.blog_id
    /\ (/\ cres.op = "create_comment"
        /\ cres.blog \in published
        /\ cres.parent # None
        /\ \A q \in comments : q.id = cres.parent => q.blog_id # cres.blog)
       => cres.result = "parent_not_found"

\* C12: a delete that succeeds on a comment with N descendants removes
\* these N + 1 rows and no other, and none of them is found afterwards.
C12_DeleteRemovesSubtree ==
    [][(cres'.op \in {"repo_delete", "repo_delete_reply"} /\ cres'.result = "true")
       => LET gone == comments \ comments'
              below == Descendants(comments, cres'.comment)
          IN /\ comments' \subseteq comments
             /\ gone = comment_by_id(comments, cres'.comment) \cup below
             /\ Cardinality(gone) = Cardinality(below) + 1
             /\ \A r \in gone : comment_by_id(comments', r.id) = {}]_vars

\* A reply (2) with a reply of its own (3) was deleted as a reply of
\* comment 1, and only comment 1 is left.
C12_Witness ==
    /\ cres.op = "repo_delete_reply" /\ cres.result = "true"
    /\ cres.comment = 2 /\ cres.parent = 1
    /\ next_comment = MaxComments + 1
    /\ {r.id : r \in comments} = {1}

\* C13: delete_comment on a comment of the given post succeeds exactly when
\* the actor is its author or an admin; any other call is forbidden and
\* leaves the comments as they are.
C13_DeleteByAuthorOrAdmin ==
    [][\A r \in comments :
         (/\ cres'.op = "delete_comment"
          /\ r.id = cres'.comment /\ r.blog_id = cres'.blog)
         => LET allowed == r.author_id = cres'.user \/ role_of(cres'.user) = "admin"
            IN /\ (cres'.result = "ok") <=> allowed
               /\ allowed => comment_by_id(comments', r.id) = {}
               /\ ~allowed => cres'.result = "forbidden" /\ comments' = comments]_vars

\* C14: update_comment on a comment of the given post succeeds when the
\* actor is its author or an admin, published or not, and then the body is
\* the new one and is_edited is true; any other call is forbidden and
\* changes nothing.
C14_UpdateByAuthorOrAdmin ==
    [][\A r \in comments :
         (/\ cres'.op = "update_comment"
          /\ r.id = cres'.comment /\ r.blog_id = cres'.blog)
         => LET allowed == r.author_id = cres'.user \/ role_of(cres'.user) = "admin"
            IN /\ (cres'.result = "ok") <=> allowed
               /\ allowed => comments' = (comments \ {r}) \cup
                       {[r EXCEPT !.content = UpdatedContent, !.is_edited = TRUE]}
               /\ ~allowed => cres'.result = "unauthorized" /\ comments' = comments]_vars

\* C15: no comment or reply is added to a post that is absent or not
\* published: create_comment ends with post-not-found or
\* post-not-commentable, create_reply refuses, and no row is added.
C15_NoCommentOnUnpublished ==
    [][/\ \A r \in comments' \ comments : r.blog_id \in blogs \cap published
       /\ (cres'.op = "create_comment" /\ cres'.blog \notin blogs)
          => cres'.result = "blog_not_found" /\ comments' = comments
       /\ (cres'.op = "create_comment" /\ cres'.blog \in blogs \ published)
          => cres'.result = "not_commentable" /\ comments' = comments
       /\ (cres'.op = "create_reply" /\ cres'.blog \notin blogs \cap published)
          => cres'.result # "ok" /\ comments' = comments]_vars

\* A reply to an existing comment was refused because its post is a draft.
C15_Witness ==
    /\ cres.op = "create_reply" /\ cres.result = "blog_not_found"
    /\ cres.blog \in blogs \ published
    /\ \E r \in comments : r.id = cres.parent /\ r.blog_id = cres.blog

\* C16: list_comments returns top-level comments only, and its total counts
\* the top-level comments of the post only.
C16_ListTopLevelOnly ==
    cres.op = "list_comments" =>
        /\ \A i \in 1..Len(cres.resp.items) :
              \A r \in comments : r.id = cres.resp.items[i] => r.parent_id = None
        /\ cres.resp.total =
              Cardinality({r \in comments : r.blog_id = cres.blog /\ r.parent_id = None})


\* C17: total_pages is the ceiling of total / per_page, has_next holds
\* exactly when page < total_pages, that is when total > page * per_page,
\* has_prev exactly when page > 1, and the items are the rows at offsets
\* (page - 1) * per_page up to page * per_page - 1 that exist.
C17_PaginationArithmetic ==
    pageq.op = "response" =>
        LET r == pageq.resp
            offset == (pageq.page - 1) * pageq.per_page
            left == IF pageq.total > offset THEN pageq.total - offset ELSE 0
            count == IF left < pageq.per_page THEN left ELSE pageq.per_page
        IN /\ r.total_pages >= 0
           /\ r.total_pages * pageq.per_page >= pageq.total
           /\ r.total_pages > 0 => (r.total_pages - 1) * pageq.per_page < pageq.total
           /\ r.has_next <=> pageq.page < r.total_pages
           /\ r.has_next <=> pageq.total > pageq.page * pageq.per_page
           /\ r.has_prev <=> pageq.page > 1
           /\ r.total = pageq.total
           /\ Len(r.items) = count
           /\ \A i \in 1..count : r.items[i] = ordered_rows(pageq.total)[offset + i]

\* The last page of 7 rows by 3: one row, a previous page, no next page.
C17_Witness ==
    /\ pageq.op = "response"
    /\ pageq.total = 7 /\ pageq.per_page = 3 /\ pageq.page = 3
    /\ pageq.resp.total_pages = 3
    /\ Len(pageq.resp.items) = 1
    /\ pageq.resp.has_prev /\ ~pageq.resp.has_next


\* C18: the requested names are trimmed and deduplicated ignoring case
\* before the cap: the request is rejected exactly when more than 10
\* names that differ ignoring case and surrounding whitespace remain.
C18_CapAfterCaseInsensitiveDedup ==
    tagsq.op = "response" =>
        LET distinct == {tagsq.tags[i][1] : i \in 1..Len(tagsq.tags)} \ {0}
        IN (tagsq.resp.result = "validation_error") <=> Cardinality(distinct) > 10


\* The rows of the tables.
Tables == <<tags, usage_count, blogs, blog_slug, blog_tags>>

C20_NamesUniqueIgnoringCase ==
    \A t, u \in tags : t # u => lower(tag_name[t]) # lower(tag_name[u])


\* C21: a post's published_at is null exactly when its published flag is
\* false, after any sequence of create_blog, update_blog, publish_blog and
\* unpublish_blog.
C21_PublishedAtIffPublished ==
    /\ published \subseteq blogs
    /\ published_at = published

\* A published post was unpublished by update_blog and has no published_at,
\* while another post is published.
C21_Witness ==
    /\ cres.op = "update_blog" /\ cres.result = "ok"
    /\ cres.blog \in blogs \ published
    /\ cres.blog \notin published_at
    /\ published # {}


\* C22: a multi-step post write that fails partway is rolled back whole:
\* the committed rows change only in the step in which a call commits and
\* returns, and what a session reads of rows it has not written is what
\* is committed.
C22_FailureRollsBack ==
    [][/\ Tables' # Tables
          => \E p \in Procs : /\ Active(p)
                              /\ tx'[p].pc = "done"
                              /\ tx'[p].result = "ok"
       /\ \A p \in Procs :
            /\ ViewBlogs(p) \ {tx[p].blog} = blogs \ {tx[p].blog}
            /\ ViewAssoc(p) \ tx[p].ins_assoc = blog_tags \ tx[p].del_assoc
            /\ \A t \in TagIds \ tx[p].cnt_w :
                   t \in ViewTags(p) => ViewCount(p)[t] = usage_count[t]]_vars

\* A post creation inserted its row, then failed on the associations: the
\* row is not in the table, no association and no count is left of it.
C22_Witness ==
    \E p \in Procs :
        /\ tx[p].op = "create_blog" /\ tx[p].pc = "done"
        /\ tx[p].result = "integrity"
        /\ tx[p].blog # None /\ tx[p].blog \notin blogs
        /\ \A r \in blog_tags : r[1] # tx[p].blog


\* C23: create_tag, update_tag and delete_tag by an actor that is missing,
\* inactive or not an admin end with unauthorized in their first step,
\* before any tag is read or written: the tags, their names, slugs and
\* counts stay as they are.
C23_AdminOnly ==
    [][\A p \in Procs :
         (/\ Active(p)
          /\ tx[p].op \in {"create_tag", "update_tag", "delete_tag"}
          /\ \/ ~tx[p].actor.present
             \/ ~tx[p].actor.is_active
             \/ tx[p].actor.role # "admin")
         => /\ tx'[p].pc = "done"
            /\ tx'[p].result = "unauthorized"
            /\ UNCHANGED <<tags, tag_name, tag_slug, usage_count, blog_tags>>]_vars

\* An inactive admin asked to delete an existing tag and was refused.
C23_Witness ==
    /\ tx[1].op = "delete_tag" /\ tx[1].pc = "done"
    /\ tx[1].result = "unauthorized"
    /\ tx[1].tag \in tags


\* C24: after delete_blog(P) succeeds no association and no comment of P
\* is left, every tag that was associated with P has its usage_count
\* lowered by one, and the associations and comments of other posts are
\* as they were.
C24_DeleteBlogOwnsRows ==
    [][(cres'.op = "delete_blog" /\ cres'.result = "true")
       => LET P == cres'.blog
          IN /\ \A r \in blog_tags' : r[1] # P
             /\ \A c \in comments' : c.blog_id # P
             /\ \A t \in tags :
                   usage_count'[t] = usage_count[t]
                                     - (IF <<P, t>> \in blog_tags THEN 1 ELSE 0)
             /\ blog_tags' = {r \in blog_tags : r[1] # P}
             /\ comments' = {c \in comments : c.blog_id # P}]_vars


\* C25: a comment is stored with is_edited false, a successful update (of a
\* comment or of a reply) leaves it true, no step takes it back to false,
\* and the author's update of a comment that is already edited succeeds
\* with the flag still true.
C25_EditedIsMonotonic ==
    [][/\ \A c \in comments' :
            (\A r \in comments : r.id # c.id) => ~c.is_edited
       /\ \A r \in comments, c \in comments' :
            (r.id = c.id /\ r.is_edited) => c.is_edited
       /\ (cres'.op \in {"update_comment", "repo_update", "repo_update_reply"}
           /\ cres'.result = "ok")
          => \E c \in comments' : c.id = cres'.comment /\ c.is_edited
       /\ \A r \in comments :
            (/\ r.is_edited
             /\ cres' # cres
             /\ cres'.comment = r.id /\ cres'.user = r.author_id
             /\ \/ cres'.op = "repo_update" /\ cres'.blog = r.blog_id
                \/ cres'.op = "repo_update_reply" /\ cres'.parent = r.parent_id)
            => cres'.result = "ok" /\ \E c \in comments' : c.id = r.id /\ c.is_edited
      ]_vars

C25_Witness ==
    /\ cres.op = "repo_update_reply" /\ cres.result = "ok"
    /\ \E c \in comments : c.id = cres.comment /\ c.is_edited /\ c.parent_id # None
    /\ \E c \in comments : ~c.is_edited


\* C26: a committed update_with_tags that replaces the post's tag set C by
\* T adds one to usage_count of every tag in T \ C, takes one from every tag
\* in C \ T and leaves the count of every other tag (in both, in neither)
\* as it was.
C26_ReplaceChangesSymmetricDifference ==
    [][\A p \in Procs :
         (/\ tx[p].op = "update_with_tags" /\ tx[p].pc = "commit"
          /\ tx'[p].pc = "done" /\ tx'[p].result = "ok")
         => LET C == get_blog_tag_ids(blog_tags, tx[p].blog)
                T == get_blog_tag_ids(blog_tags', tx[p].blog)
            IN \A t \in TagIds :
                 usage_count'[t] = usage_count[t]
                                   + (IF t \in T \ C THEN 1 ELSE 0)
                                   - (IF t \in C \ T THEN 1 ELSE 0)]_vars

C26_Witness ==
    \E p \in Procs :
      /\ tx[p].op = "update_with_tags" /\ tx[p].pc = "done" /\ tx[p].result = "ok"
      /\ tx[p].ids # NoneIds /\ Len(tx[p].ids) > 0
      /\ get_blog_tag_ids(blog_tags, tx[p].blog) = {tx[p].ids[i] : i \in 1..Len(tx[p].ids)}
      /\ \E t \in TagIds : usage_count[t] = 0 /\ t \in tags
      /\ \E t \in TagIds : usage_count[t] = 2


\* C27: no post and no tag is stored with the empty slug or with a slug
\* that is the empty base and a suffix (a bare "-1").
C27_NoEmptySlug ==
    /\ \A b \in blogs : blog_slug[b] # NoSlug /\ blog_slug[b][1] # 0
    /\ \A t \in tags : tag_slug[t] # NoSlug /\ tag_slug[t][1] # 0


\* C28: when the record whose id is excluded holds the base slug and no
\* other record holds it, both resolvers return the base slug itself.
C28_RenameKeepsOwnSlug ==
    (/\ slugq.exclude # None
     /\ slugq.exclude \in slugq.rows
     /\ slugq.slugs[slugq.exclude] = slugq.base
     /\ \A r \in slugq.rows \ {slugq.exclude} : slugq.slugs[r] # slugq.base)
    => /\ slugq.blog_result # NoSlug => slugq.blog_result = slugq.base
       /\ slugq.tag_result # NoSlug => slugq.tag_result = slugq.base

C28_Witness ==
    /\ slugq.exclude # None
    /\ slugq.exclude \in slugq.rows
    /\ slugq.slugs[slugq.exclude] = slugq.base
    /\ \E r \in slugq.rows : slugq.slugs[r] = Candidate(slugq.base, 1)
    /\ slugq.blog_result = slugq.base
    /\ slugq.tag_result = slugq.base


\* C29: table likes holds at most one row for a user and a target.
C29_OneLikePerUserAndTarget ==
    \A l1, l2 \in likes :
       (l1.user_id = l2.user_id /\ l1.kind = l2.kind /\ l1.target = l2.target)
       => l1 = l2


\* C30: a reset code takes at most one call past the comparison: no two
\* calls for the same user hold the same code verified or used.
C30_CodeUsedOnce ==
    \A p, q \in Procs :
       (/\ p # q
        /\ tx[p].op = "reset" /\ tx[q].op = "reset"
        /\ tx[p].user = tx[q].user /\ tx[p].code = tx[q].code
        /\ tx[p].pc = "done" /\ tx[p].result = "ok")
       => ~(tx[q].pc = "done" /\ tx[q].result = "ok")

=============================================================================
